---------------------------- MODULE Spec2Model ----------------------------
(***************************************************************************)
(* A model of the pull parser of src/reader/parser.rs (PullParser).        *)
(*                                                                         *)
(* The parser's fields are the variables.  One call of PullParser::next    *)
(* is a run of steps: the entry of the call (the sticky event, the queued  *)
(* event, the deferred namespace pop), then one step per token the lexer   *)
(* yields, each dispatched to the handler of the current state, until a    *)
(* handler returns an event or the lexer reports an error or the end of    *)
(* the stream.  The lexer, the names, the namespace stack and the          *)
(* configuration live outside parser.rs; they are modelled from their      *)
(* contract.                                                               *)
(*                                                                         *)
(* A Rust String is a sequence of one-character strings, an Option is a    *)
(* sequence of length 0 (None) or 1 (Some).                                *)
(***************************************************************************)
EXTENDS Integers, Sequences, FiniteSets, TLC

(***************************************************************************)
(* The bound of the model.                                                 *)
(***************************************************************************)
\* the most tokens the unscripted lexer yields before its stream ends
MaxTokens == 3

(***************************************************************************)
(* Option<T>                                                               *)
(***************************************************************************)
None == << >>

Some(x) == << x >>

IsSome(o) == o # << >>

Unwrap(o) == o[1]

(***************************************************************************)
(* Tokens of the lexer (reader::lexer::Token).                             *)
(***************************************************************************)
Tok(kind) == [k |-> kind]

Character(ch) == [k |-> "Character", c |-> ch]

Whitespace(ch) == [k |-> "Whitespace", c |-> ch]

Chunk(str) == [k |-> "Chunk", s |-> str]

ProcessingInstructionStart == Tok("ProcessingInstructionStart")

ProcessingInstructionEnd == Tok("ProcessingInstructionEnd")

DoctypeStart == Tok("DoctypeStart")

OpeningTagStart == Tok("OpeningTagStart")

ClosingTagStart == Tok("ClosingTagStart")

TagEnd == Tok("TagEnd")

EmptyTagEnd == Tok("EmptyTagEnd")

CommentStart == Tok("CommentStart")

CommentEnd == Tok("CommentEnd")

CDataStart == Tok("CDataStart")

CDataEnd == Tok("CDataEnd")

ReferenceStart == Tok("ReferenceStart")

ReferenceEnd == Tok("ReferenceEnd")

DoubleQuote == Tok("DoubleQuote")

SingleQuote == Tok("SingleQuote")

EqualsSign == Tok("EqualsSign")

\* Token::to_string: the text a token stands for
TokenToString(t) ==
    CASE t.k = "Character" -> << t.c >>
      [] t.k = "Whitespace" -> << t.c >>
      [] t.k = "Chunk" -> t.s
      [] t.k = "ProcessingInstructionStart" -> << "<", "?" >>
      [] t.k = "ProcessingInstructionEnd" -> << "?", ">" >>
      [] t.k = "DoctypeStart" -> << "<", "!", "D", "O", "C", "T", "Y", "P", "E" >>
      [] t.k = "OpeningTagStart" -> << "<" >>
      [] t.k = "ClosingTagStart" -> << "<", "/" >>
      [] t.k = "TagEnd" -> << ">" >>
      [] t.k = "EmptyTagEnd" -> << "/", ">" >>
      [] t.k = "CommentStart" -> << "<", "!", "-", "-" >>
      [] t.k = "CommentEnd" -> << "-", "-", ">" >>
      [] t.k = "CDataStart" -> << "<", "!", "[", "C", "D", "A", "T", "A", "[" >>
      [] t.k = "CDataEnd" -> << "]", "]", ">" >>
      [] t.k = "ReferenceStart" -> << "&" >>
      [] t.k = "ReferenceEnd" -> << ";" >>
      [] t.k = "DoubleQuote" -> << "\"" >>
      [] t.k = "SingleQuote" -> << "'" >>
      [] t.k = "EqualsSign" -> << "=" >>

\* Token::contains_char_data: tokens that are plain text outside markup
ContainsCharData(t) ==
    t.k \in {"Whitespace", "Chunk", "Character", "TagEnd", "EqualsSign",
             "DoubleQuote", "SingleQuote"}

(***************************************************************************)
(* Characters (common::is_whitespace_char, is_name_start_char,             *)
(* is_name_char) over the characters the model uses.                       *)
(***************************************************************************)
Letters ==
    {"a", "b", "c", "d", "e", "f", "g", "h", "i", "j", "k", "l", "m", "n", "o",
     "p", "q", "r", "s", "t", "u", "v", "w", "x", "y", "z",
     "A", "B", "C", "D", "E", "F", "G", "H", "I", "J", "K", "L", "M", "N", "O",
     "P", "Q", "R", "S", "T", "U", "V", "W", "X", "Y", "Z"}

Digits == {"0", "1", "2", "3", "4", "5", "6", "7", "8", "9"}

is_whitespace_char(c) == c \in {" ", "\t", "\n", "\r"}

\* a letter outside ASCII that NameStartChar holds: U+00E9, two bytes in UTF-8
NonAsciiLetters == {"U+233"}

is_name_start_char(c) == c \in Letters \cup {":", "_"} \cup NonAsciiLetters

is_name_char(c) == is_name_start_char(c) \/ c \in Digits \cup {"-", "."}

\* the bytes a character takes in a String (UTF-8); a character outside
\* printable ASCII is the text "U+n" of its code point n
len_utf8(c) ==
    IF Len(c) = 1 THEN 1
    ELSE IF \E n \in 0..127 : c = "U+" \o ToString(n) THEN 1
    ELSE IF \E n \in 128..2047 : c = "U+" \o ToString(n) THEN 2
    ELSE IF \E n \in 2048..65535 : c = "U+" \o ToString(n) THEN 3
    ELSE 4

\* String::len: the length in bytes
RECURSIVE ByteLen(_)
ByteLen(s) == IF s = << >> THEN 0 ELSE len_utf8(Head(s)) + ByteLen(Tail(s))

\* str::is_char_boundary: the byte index i is where a character of s
\* starts, or the end of s
is_char_boundary(s, i) == \E k \in 0..Len(s) : ByteLen(SubSeq(s, 1, k)) = i


(***************************************************************************)
(* Names (common::Name, common::parse_name).                               *)
(***************************************************************************)
Name(pfx, local) == [local_name |-> local, namespace |-> None, prefix |-> pfx]

ColonPositions(s) == {i \in 1..Len(s) : s[i] = ":"}

\* the buffer is split on ':' into (prefix?, local); an empty local part and
\* a text that does not split in two are no names
parse_name(s) ==
    LET cs == ColonPositions(s)
    IN  IF cs = {}
        THEN IF s = << >> THEN None ELSE Some(Name(None, s))
        ELSE IF Cardinality(cs) = 1
             THEN LET i == CHOOSE j \in cs : TRUE
                      local == SubSeq(s, i + 1, Len(s))
                  IN  IF local = << >>
                      THEN None
                      ELSE Some(Name(Some(SubSeq(s, 1, i - 1)), local))
             ELSE None

(***************************************************************************)
(* Namespaces (namespace::NamespaceStack and its constants).  A scope is   *)
(* a function from prefixes (Option<String>) to URIs; the stack is a       *)
(* sequence of scopes, the innermost last.                                 *)
(***************************************************************************)
NS_XMLNS_PREFIX == << "x", "m", "l", "n", "s" >>

NS_XML_PREFIX == << "x", "m", "l" >>

NS_XMLNS_URI ==
    << "h", "t", "t", "p", ":", "/", "/", "w", "w", "w", ".", "w", "3", ".",
       "o", "r", "g", "/", "2", "0", "0", "0", "/", "x", "m", "l", "n", "s",
       "/" >>

NS_XML_URI ==
    << "h", "t", "t", "p", ":", "/", "/", "w", "w", "w", ".", "w", "3", ".",
       "o", "r", "g", "/", "X", "M", "L", "/", "1", "9", "9", "8", "/", "n",
       "a", "m", "e", "s", "p", "a", "c", "e" >>

NS_EMPTY_URI == << >>

EmptyScope == << >>

\* Namespace::put on one scope
ScopePut(scope, pfx, uri) ==
    [q \in DOMAIN scope \cup {pfx} |-> IF q = pfx THEN uri ELSE scope[q]]

\* NamespaceStack::default: one scope binding xml, xmlns and the empty
\* default namespace
NamespaceStackDefault ==
    << ScopePut(ScopePut(ScopePut(EmptyScope, Some(NS_XML_PREFIX), NS_XML_URI),
                         Some(NS_XMLNS_PREFIX), NS_XMLNS_URI),
                None, NS_EMPTY_URI) >>

\* NamespaceStack::push_empty
NstPushEmpty(stack) == Append(stack, EmptyScope)

\* NamespaceStack::pop
NstPop(stack) ==
    IF stack = << >> THEN stack ELSE SubSeq(stack, 1, Len(stack) - 1)

\* NamespaceStack::put: binds in the top scope
NstPut(stack, pfx, uri) ==
    [stack EXCEPT ![Len(stack)] = ScopePut(stack[Len(stack)], pfx, uri)]

\* NamespaceStack::get: the innermost binding of the prefix, if any
NstGet(stack, pfx) ==
    LET holders == {i \in 1..Len(stack) : pfx \in DOMAIN stack[i]}
    IN  IF holders = {}
        THEN None
        ELSE LET top == CHOOSE i \in holders : \A j \in holders : j <= i
             IN  Some(stack[top][pfx])

\* NamespaceStack::squash: the flattened scope, inner bindings shadowing
NstSquash(stack) ==
    LET bound == UNION {DOMAIN stack[i] : i \in 1..Len(stack)}
    IN  [q \in bound |-> Unwrap(NstGet(stack, q))]

(***************************************************************************)
(* Events (reader::events::XmlEvent).                                      *)
(***************************************************************************)
Version10 == "1.0"

Version11 == "1.1"

EvStartDocument(v, e, s) ==
    [kind |-> "StartDocument", version |-> v, encoding |-> e, standalone |-> s]

EvEndDocument == [kind |-> "EndDocument"]

EvProcessingInstruction(n, d) ==
    [kind |-> "ProcessingInstruction", name |-> n, data |-> d]

EvComment(s) == [kind |-> "Comment", text |-> s]

EvCData(s) == [kind |-> "CData", text |-> s]

EvCharacters(s) == [kind |-> "Characters", text |-> s]

EvWhitespace(s) == [kind |-> "Whitespace", text |-> s]

EvStartElement(n, attrs, ns) ==
    [kind |-> "StartElement", name |-> n, attributes |-> attrs, namespace |-> ns]

EvEndElement(n) == [kind |-> "EndElement", name |-> n]

\* events::Error(Error::new(&self.lexer, msg)): the message is kept as its
\* format string and its arguments
EvError(m, a) == [kind |-> "Error", msg |-> m, args |-> a]

IsTerminal(ev) == ev.kind \in {"EndDocument", "Error"}

DEFAULT_VERSION == Version10

DEFAULT_ENCODING == << "U", "T", "F", "-", "8" >>

DEFAULT_STANDALONE == None

(***************************************************************************)
(* States (enum State and its substates).  A state is the sequence of its  *)
(* constructor and substate; InsideReference(s) is s behind one more       *)
(* element.                                                                *)
(***************************************************************************)
OutsideTag == << "OutsideTag" >>

InsideOpeningTag(s) == << "InsideOpeningTag", s >>

InsideClosingTag(s) == << "InsideClosingTag", s >>

InsideProcessingInstruction(s) == << "InsideProcessingInstruction", s >>

InsideComment == << "InsideComment" >>

InsideCData == << "InsideCData" >>

InsideDeclaration(s) == << "InsideDeclaration", s >>

InsideDoctype == << "InsideDoctype" >>

InsideReference(s) == << "InsideReference" >> \o s

\* QuoteToken::from_token (a quote token's own kind; any other token
\* panics) and as_token
QuoteFromToken(t) ==
    IF t.k \in {"SingleQuote", "DoubleQuote"} THEN t.k ELSE "panic"

QuoteAsToken(q) == Tok(q)

\* the initial MarkupData
EmptyMarkupData ==
    [name |-> << >>, ref_data |-> << >>, version |-> None, encoding |-> None,
     standalone |-> None, element_name |-> None, quote |-> None,
     attr_name |-> None, attributes |-> << >>]

(***************************************************************************)
(* The handlers.  Each takes the parser p (the record of PullParser's      *)
(* fields) and a token, and yields the parser after the call and the       *)
(* Option<XmlEvent> the call returns.                                      *)
(***************************************************************************)
Result(q, e) == [p |-> q, ev |-> e]

\* self_error!(self; fmt, args) as Some(event)
SelfError(q, m, a) == Result(q, Some(EvError(m, a)))

\* a panic (unwrap() of None, unreachable!(), panic!()): the call never
\* returns; the site is kept
Panic(q, site) == Result(q, Some([kind |-> "Panic", site |-> site]))

depth(p) == Len(p.est)

buf_has_data(p) == Len(p.buf) > 0

take_buf(p) == [p EXCEPT !.buf = << >>]

append_char_continue(p, c) == Result([p EXCEPT !.buf = Append(@, c)], None)

append_str_continue(p, s) == Result([p EXCEPT !.buf = @ \o s], None)

into_state(p, state, e) == Result([p EXCEPT !.st = state], e)

into_state_continue(p, state) == into_state(p, state, None)

into_state_emit(p, state, e) == into_state(p, state, Some(e))

\* PullLexer::disable_errors and enable_errors
disable_errors(p) == [p EXCEPT !.lexer.skip_errors = TRUE]

enable_errors(p) == [p EXCEPT !.lexer.skip_errors = FALSE]

\* str::trim_chars(is_whitespace_char)
TrimWhitespace(s) ==
    LET keep == {i \in 1..Len(s) : ~is_whitespace_char(s[i])}
    IN  IF keep = {}
        THEN << >>
        ELSE SubSeq(s, CHOOSE i \in keep : \A j \in keep : i <= j,
                       CHOOSE i \in keep : \A j \in keep : j <= i)

\* ResolveName with a name without prefix left without namespace
ResolveName_PrefixedOnly(nst, name) ==
    LET ns == NstGet(nst, name.prefix)
    IN  IF ns = None
        THEN None
        ELSE IF Unwrap(ns) = << >> \/ name.prefix = None
             THEN Some([name EXCEPT !.namespace = None])
             ELSE Some([name EXCEPT !.namespace = Some(Unwrap(ns))])

\* ResolveName with an unbound prefix taken for no namespace
ResolveName_UnboundIsAbsent(nst, name) ==
    LET ns == NstGet(nst, name.prefix)
    IN  IF ns = None \/ Unwrap(ns) = << >>
        THEN Some([name EXCEPT !.namespace = None])
        ELSE Some([name EXCEPT !.namespace = Some(Unwrap(ns))])

\* the prefix resolution shared by emit_start_element and emit_end_element:
\* None when the prefix is unbound, else Some(name with its namespace)
ResolveName(nst, name) ==
    LET ns == NstGet(nst, name.prefix)
    IN  IF ns = None
        THEN None
        ELSE IF Unwrap(ns) = << >>
             THEN Some([name EXCEPT !.namespace = None])
             ELSE Some([name EXCEPT !.namespace = Some(Unwrap(ns))])

\* the loop over the accumulated attributes in emit_start_element: the
\* attributes resolved, up to the first whose prefix is unbound
RECURSIVE ResolveAttributes(_, _)
ResolveAttributes(nst, attrs) ==
    IF attrs = << >>
    THEN [ok |-> TRUE, attrs |-> << >>]
    ELSE LET n == ResolveName(nst, Head(attrs).name)
         IN  IF n = None
             THEN [ok |-> FALSE, bad |-> Head(attrs).name]
             ELSE LET rest == ResolveAttributes(nst, Tail(attrs))
                  IN  IF rest.ok
                      THEN [ok |-> TRUE,
                            attrs |-> << [name |-> Unwrap(n),
                                          value |-> Head(attrs).value] >>
                                      \o rest.attrs]
                      ELSE rest

emit_start_element(p, emit_end_element) ==
    LET name0 == Unwrap(p.data.element_name)
        attributes == p.data.attributes
        p1 == [p EXCEPT !.data.element_name = None, !.data.attributes = << >>]
        name == ResolveName(p1.nst, name0)
        attrs == ResolveAttributes(p1.nst, attributes)
    IN  IF p.data.element_name = None
        THEN Panic(p, "emit_start_element: take_element_name().unwrap()")
        ELSE IF name = None
        THEN SelfError(p1, "Element {} prefix is unbound", << name0 >>)
        ELSE IF ~attrs.ok
        THEN SelfError(p1, "Attribute {} prefix is unbound", << attrs.bad >>)
        ELSE LET p2 == IF emit_end_element
                       THEN [p1 EXCEPT !.pop_namespace = TRUE,
                                       !.next_event = Some(EvEndElement(Unwrap(name)))]
                       ELSE [p1 EXCEPT !.est = Append(@, Unwrap(name))]
             IN  into_state_emit(p2, OutsideTag,
                     EvStartElement(Unwrap(name), attrs.attrs, NstSquash(p2.nst)))

\* emit_end_element with the element stack popped only when the names match
emit_end_element_PopsOnMatch(p) ==
    LET name0 == Unwrap(p.data.element_name)
        p1 == [p EXCEPT !.data.element_name = None]
        name == ResolveName(p1.nst, name0)
    IN  IF p.data.element_name = None
        THEN Panic(p, "emit_end_element: take_element_name().unwrap()")
        ELSE IF name = None
        THEN SelfError(p1, "Element {} prefix is unbound", << name0 >>)
        ELSE IF p1.est = << >>
        THEN Panic(p1, "emit_end_element: est.pop().unwrap()")
        ELSE LET op_name == p1.est[Len(p1.est)]
             IN  IF Unwrap(name) = op_name
                 THEN into_state_emit([p1 EXCEPT !.est = SubSeq(@, 1, Len(@) - 1),
                                                  !.pop_namespace = TRUE],
                                      OutsideTag, EvEndElement(Unwrap(name)))
                 ELSE SelfError(p1, "Unexpected closing tag: {}, expected {}",
                                << Unwrap(name), op_name >>)

\* emit_end_element with the names in the message the other way round
emit_end_element_NamesSwapped(p) ==
    LET name0 == Unwrap(p.data.element_name)
        p1 == [p EXCEPT !.data.element_name = None]
        name == ResolveName(p1.nst, name0)
    IN  IF p.data.element_name = None
        THEN Panic(p, "emit_end_element: take_element_name().unwrap()")
        ELSE IF name = None
        THEN SelfError(p1, "Element {} prefix is unbound", << name0 >>)
        ELSE IF p1.est = << >>
        THEN Panic(p1, "emit_end_element: est.pop().unwrap()")
        ELSE LET op_name == p1.est[Len(p1.est)]
                 p2 == [p1 EXCEPT !.est = SubSeq(@, 1, Len(@) - 1)]
             IN  IF Unwrap(name) = op_name
                 THEN into_state_emit([p2 EXCEPT !.pop_namespace = TRUE],
                                      OutsideTag, EvEndElement(Unwrap(name)))
                 ELSE SelfError(p2, "Unexpected closing tag: {}, expected {}",
                                << op_name, Unwrap(name) >>)

\* emit_end_element with the comparison of the two names left out
emit_end_element_AnyName(p) ==
    LET name0 == Unwrap(p.data.element_name)
        p1 == [p EXCEPT !.data.element_name = None]
        name == ResolveName(p1.nst, name0)
    IN  IF p.data.element_name = None
        THEN Panic(p, "emit_end_element: take_element_name().unwrap()")
        ELSE IF name = None
        THEN SelfError(p1, "Element {} prefix is unbound", << name0 >>)
        ELSE IF p1.est = << >>
        THEN Panic(p1, "emit_end_element: est.pop().unwrap()")
        ELSE into_state_emit([p1 EXCEPT !.est = SubSeq(@, 1, Len(@) - 1),
                                         !.pop_namespace = TRUE],
                             OutsideTag, EvEndElement(Unwrap(name)))

emit_end_element(p) ==
    LET name0 == Unwrap(p.data.element_name)
        p1 == [p EXCEPT !.data.element_name = None]
        name == ResolveName(p1.nst, name0)
    IN  IF p.data.element_name = None
        THEN Panic(p, "emit_end_element: take_element_name().unwrap()")
        ELSE IF name = None
        THEN SelfError(p1, "Element {} prefix is unbound", << name0 >>)
        ELSE IF p1.est = << >>
        THEN Panic(p1, "emit_end_element: est.pop().unwrap()")
        ELSE LET op_name == p1.est[Len(p1.est)]
                 p2 == [p1 EXCEPT !.est = SubSeq(@, 1, Len(@) - 1)]
             IN  IF Unwrap(name) = op_name
                 THEN into_state_emit([p2 EXCEPT !.pop_namespace = TRUE],
                                      OutsideTag, EvEndElement(Unwrap(name)))
                 ELSE SelfError(p2, "Unexpected closing tag: {}, expected {}",
                                << Unwrap(name), op_name >>)

(***************************************************************************)
(* The closures handed to read_qualified_name, named after the substate    *)
(* that hands them over.                                                   *)
(***************************************************************************)
\* unexpected_token! with the token passed over: no error, the declaration
\* goes on
UnexpectedInDeclaration_Skips(p, x) == Result(p, None)

UnexpectedInDeclaration(p, x) ==
    SelfError(p, "Unexpected token inside XML declaration: {}", << x >>)

\* one of the three pseudo-attribute name closures of inside_declaration
DeclarationName(p, token, name, rest, value_state, after_state) ==
    IF name.local_name = rest /\ name.namespace = None
    THEN into_state_continue(p, InsideDeclaration(
             IF token = EqualsSign THEN value_state ELSE after_state))
    ELSE UnexpectedInDeclaration(p, name)

HasReservedPrefix(name) ==
    /\ IsSome(name.prefix)
    /\ Unwrap(name.prefix) \in {NS_XML_PREFIX, NS_XMLNS_PREFIX}

\* the closure of InsideName
OpeningTagName(p, token, name) ==
    IF HasReservedPrefix(name)
    THEN SelfError(p, "'{}' cannot be an element name prefix", << name.prefix >>)
    ELSE LET p1 == [p EXCEPT !.data.element_name = Some(name)]
         IN  IF token = TagEnd THEN emit_start_element(p1, FALSE)
             ELSE IF token = EmptyTagEnd THEN emit_start_element(p1, TRUE)
             ELSE IF token.k = "Whitespace"
             THEN into_state_continue(p1, InsideOpeningTag("InsideTag"))
             ELSE Panic(p1, "InsideName: unreachable!()")

\* the closure of InsideAttributeName
AttributeName(p, token, name) ==
    LET p1 == [p EXCEPT !.data.attr_name = Some(name)]
    IN  IF token.k = "Whitespace"
        THEN into_state_continue(p1, InsideOpeningTag("AfterAttributeName"))
        ELSE IF token = EqualsSign
        THEN into_state_continue(p1, InsideOpeningTag("InsideAttributeValue"))
        ELSE Panic(p1, "InsideAttributeName: unreachable!()")

\* the closure of CTInsideName
ClosingTagName(p, token, name) ==
    IF HasReservedPrefix(name)
    THEN SelfError(p, "'{}' cannot be an element name prefix", << name.prefix >>)
    ELSE LET p1 == [p EXCEPT !.data.element_name = Some(name)]
         IN  IF token.k = "Whitespace"
             THEN into_state_continue(p1, InsideClosingTag("CTAfterName"))
             ELSE IF token = TagEnd THEN emit_end_element(p1)
             ELSE SelfError(p1, "Unexpected token inside closing tag: {}", << token >>)

\* on_name of read_qualified_name: the closure of the calling substate
OnName(sub, p, token, name) ==
    CASE sub = "InsideVersion" ->
            DeclarationName(p, token, name, << "e", "r", "s", "i", "o", "n" >>,
                            "InsideVersionValue", "AfterVersion")
      [] sub = "InsideEncoding" ->
            DeclarationName(p, token, name, << "n", "c", "o", "d", "i", "n", "g" >>,
                            "InsideEncodingValue", "AfterEncoding")
      [] sub = "InsideStandaloneDecl" ->
            DeclarationName(p, token, name,
                            << "t", "a", "n", "d", "a", "l", "o", "n", "e" >>,
                            "InsideStandaloneDeclValue", "AfterStandaloneDecl")
      [] sub = "InsideName" -> OpeningTagName(p, token, name)
      [] sub = "InsideAttributeName" -> AttributeName(p, token, name)
      [] sub = "CTInsideName" -> ClosingTagName(p, token, name)

\* invoke_callback of read_qualified_name
invoke_callback(p, t, sub) ==
    LET name == p.buf
        p1 == take_buf(p)
        parsed == parse_name(name)
    IN  IF IsSome(parsed)
        THEN OnName(sub, p1, t, Unwrap(parsed))
        ELSE SelfError(p1, "Qualified name is invalid: {}", << name >>)

read_qualified_name(p, t, target, sub) ==
    LET p1 == IF ByteLen(p.buf) <= 1
              THEN [p EXCEPT !.read_prefix_separator = FALSE]
              ELSE p
    IN  IF t = Character(":") /\ buf_has_data(p1) /\ ~p1.read_prefix_separator
        THEN Result([p1 EXCEPT !.buf = Append(@, ":"),
                               !.read_prefix_separator = TRUE], None)
        ELSE IF /\ t.k = "Character"
                /\ t.c # ":"
                /\ \/ ~buf_has_data(p1) /\ is_name_start_char(t.c)
                   \/ buf_has_data(p1) /\ is_name_char(t.c)
        THEN append_char_continue(p1, t.c)
        ELSE IF t = EqualsSign /\ target = "AttributeNameTarget"
        THEN invoke_callback(p1, t, sub)
        ELSE IF t = EmptyTagEnd /\ target = "OpeningTagNameTarget"
        THEN invoke_callback(p1, t, sub)
        ELSE IF t = TagEnd /\ target \in {"OpeningTagNameTarget", "ClosingTagNameTarget"}
        THEN invoke_callback(p1, t, sub)
        ELSE IF t.k = "Whitespace"
        THEN invoke_callback(p1, t, sub)
        ELSE SelfError(p1, "Unexpected token inside qualified name: {}", << t >>)

(***************************************************************************)
(* The closures handed to read_attribute_value.                            *)
(***************************************************************************)
VersionValue(p, value) ==
    LET v == IF value = << "1", ".", "0" >> THEN Some(Version10)
             ELSE IF value = << "1", ".", "1" >> THEN Some(Version11)
             ELSE None
        p1 == [p EXCEPT !.data.version = v]
    IN  IF IsSome(v)
        THEN into_state_continue(p1, InsideDeclaration("AfterVersionValue"))
        ELSE SelfError(p1, "Unexpected XML version value: {}", << value >>)

EncodingValue(p, value) ==
    into_state_continue([p EXCEPT !.data.encoding = Some(value)],
                        InsideDeclaration("BeforeStandaloneDecl"))

StandaloneValue(p, value) ==
    LET standalone == IF value = << "y", "e", "s" >> THEN Some(TRUE)
                      ELSE IF value = << "n", "o" >> THEN Some(FALSE)
                      ELSE None
    IN  IF IsSome(standalone)
        THEN into_state_continue([p EXCEPT !.data.standalone = standalone],
                                 InsideDeclaration("AfterStandaloneDeclValue"))
        ELSE SelfError(p, "Invalid standalone declaration value: {}", << value >>)

\* the closure of InsideAttributeValue
AttributeValue(p, value) ==
    LET name == Unwrap(p.data.attr_name)
        p1 == [p EXCEPT !.data.attr_name = None]
        ln == name.local_name
    IN  IF p.data.attr_name = None
        THEN Panic(p, "InsideAttributeValue: take_attr_name().unwrap()")
        ELSE IF name.prefix = Some(NS_XMLNS_PREFIX)
        THEN IF ln = NS_XMLNS_PREFIX
             THEN SelfError(p1, "Cannot redefine '{}' prefix", << NS_XMLNS_PREFIX >>)
             ELSE IF ln = NS_XML_PREFIX /\ value # NS_XML_URI
             THEN SelfError(p1, "'{}' prefix cannot be rebound to another value",
                            << NS_XML_PREFIX >>)
             ELSE IF value = << >>
             THEN SelfError(p1, "Cannot undefine a prefix: {}", << ln >>)
             ELSE into_state_continue([p1 EXCEPT !.nst = NstPut(@, Some(ln), value)],
                                      InsideOpeningTag("InsideTag"))
        ELSE IF name.prefix = None /\ ln = NS_XMLNS_PREFIX
        THEN IF value = NS_XMLNS_PREFIX \/ value = NS_XML_PREFIX
             THEN SelfError(p1, "Namespace '{}' cannot be default", << value >>)
             ELSE into_state_continue([p1 EXCEPT !.nst = NstPut(@, None, value)],
                                      InsideOpeningTag("InsideTag"))
        ELSE into_state_continue(
                 [p1 EXCEPT !.data.attributes =
                                Append(@, [name |-> name, value |-> value])],
                 InsideOpeningTag("InsideTag"))

\* on_value of read_attribute_value: the closure of the calling substate
OnValue(sub, p, value) ==
    CASE sub = "InsideVersionValue" -> VersionValue(p, value)
      [] sub = "InsideEncodingValue" -> EncodingValue(p, value)
      [] sub = "InsideStandaloneDeclValue" -> StandaloneValue(p, value)
      [] sub = "InsideAttributeValue" -> AttributeValue(p, value)

\* read_attribute_value with OpeningTagStart taken for a character of the
\* value
read_attribute_value_NoCheck(p, t, sub) ==
    IF t.k = "Whitespace" /\ p.data.quote = None
    THEN Result(p, None)
    ELSE IF t.k \in {"DoubleQuote", "SingleQuote"}
    THEN IF p.data.quote = None
         THEN Result([p EXCEPT !.data.quote = Some(QuoteFromToken(t))], None)
         ELSE IF QuoteAsToken(Unwrap(p.data.quote)) = t
         THEN OnValue(sub, take_buf([p EXCEPT !.data.quote = None]), p.buf)
         ELSE append_str_continue(p, TokenToString(t))
    ELSE IF t = ReferenceStart
    THEN into_state_continue(p, InsideReference(p.st))
    ELSE append_str_continue(p, TokenToString(t))

read_attribute_value(p, t, sub) ==
    IF t.k = "Whitespace" /\ p.data.quote = None
    THEN Result(p, None)
    ELSE IF t.k \in {"DoubleQuote", "SingleQuote"}
    THEN IF p.data.quote = None
         THEN Result([p EXCEPT !.data.quote = Some(QuoteFromToken(t))], None)
         ELSE IF QuoteAsToken(Unwrap(p.data.quote)) = t
         THEN OnValue(sub, take_buf([p EXCEPT !.data.quote = None]), p.buf)
         ELSE append_str_continue(p, TokenToString(t))
    ELSE IF t = ReferenceStart
    THEN into_state_continue(p, InsideReference(p.st))
    ELSE IF t = OpeningTagStart
    THEN SelfError(p, "Unexpected token inside attribute value: <", << >>)
    ELSE append_str_continue(p, TokenToString(t))

(***************************************************************************)
(* The handlers of the primary states.                                     *)
(***************************************************************************)
\* the buffer flush of outside_tag: the parser with the buffer taken and
\* the event of the flush
FlushBuffer(p) ==
    IF buf_has_data(p)
    THEN LET buf == p.buf
         IN  Result(take_buf(p),
                 IF p.inside_whitespace /\ p.config.trim_whitespace
                 THEN None
                 ELSE IF p.inside_whitespace /\ ~p.config.whitespace_to_characters
                 THEN Some(EvWhitespace(buf))
                 ELSE IF p.config.trim_whitespace
                 THEN Some(EvCharacters(TrimWhitespace(buf)))
                 ELSE Some(EvCharacters(buf)))
    ELSE Result(p, None)

\* the markup arm of outside_tag (the final arm of its match)
OutsideTagMarkup(p, t) ==
    LET flushed == FlushBuffer(p)
        next_event == flushed.ev
        p1 == [flushed.p EXCEPT !.inside_whitespace = TRUE]
    IN  IF t = ProcessingInstructionStart
        THEN into_state(p1, InsideProcessingInstruction("PIInsideName"), next_event)
        ELSE IF t = DoctypeStart /\ ~p1.encountered_element
        THEN into_state(disable_errors(p1), InsideDoctype, next_event)
        ELSE IF t = OpeningTagStart
        THEN LET sd_event == EvStartDocument(DEFAULT_VERSION, DEFAULT_ENCODING,
                                             DEFAULT_STANDALONE)
                 p2 == [p1 EXCEPT !.parsed_declaration = TRUE,
                                  !.encountered_element = TRUE,
                                  !.nst = NstPushEmpty(@)]
             IN  into_state(p2, InsideOpeningTag("InsideName"),
                            IF ~p1.parsed_declaration
                            THEN Some(sd_event)
                            ELSE next_event)
        ELSE IF t = ClosingTagStart /\ depth(p1) > 0
        THEN into_state(p1, InsideClosingTag("CTInsideName"), next_event)
        ELSE IF t = CommentStart
        THEN into_state(disable_errors(p1), InsideComment, next_event)
        ELSE IF t = CDataStart
        THEN into_state(disable_errors(p1), InsideCData, next_event)
        ELSE SelfError(p1, "Unexpected token: {}", << t >>)

\* outside_tag without its two arms for character data at depth 0
outside_tag_NoDepthCheck(p, t) ==
    IF t = ReferenceStart
    THEN into_state_continue(p, InsideReference(OutsideTag))
    ELSE IF t.k = "Whitespace"
    THEN append_char_continue(p, t.c)
    ELSE IF ContainsCharData(t)
    THEN append_str_continue([p EXCEPT !.inside_whitespace = FALSE], TokenToString(t))
    ELSE IF t = ReferenceEnd
    THEN append_str_continue([p EXCEPT !.inside_whitespace = FALSE],
                             TokenToString(ReferenceEnd))
    ELSE IF /\ t = CommentStart
            /\ p.config.coalesce_characters
            /\ p.config.ignore_comments
    THEN into_state_continue(disable_errors(p), InsideComment)
    ELSE IF /\ t = CDataStart
            /\ p.config.coalesce_characters
            /\ p.config.cdata_to_characters
    THEN into_state_continue(disable_errors(p), InsideCData)
    ELSE OutsideTagMarkup(p, t)

outside_tag(p, t) ==
    IF t = ReferenceStart
    THEN into_state_continue(p, InsideReference(OutsideTag))
    ELSE IF t.k = "Whitespace" /\ depth(p) = 0
    THEN Result(p, None)
    ELSE IF ContainsCharData(t) /\ depth(p) = 0
    THEN SelfError(p, "Unexpected characters outside the root element: {}", << t >>)
    ELSE IF t.k = "Whitespace"
    THEN append_char_continue(p, t.c)
    ELSE IF ContainsCharData(t)
    THEN append_str_continue([p EXCEPT !.inside_whitespace = FALSE], TokenToString(t))
    ELSE IF t = ReferenceEnd
    THEN append_str_continue([p EXCEPT !.inside_whitespace = FALSE],
                             TokenToString(ReferenceEnd))
    ELSE IF /\ t = CommentStart
            /\ p.config.coalesce_characters
            /\ p.config.ignore_comments
    THEN into_state_continue(disable_errors(p), InsideComment)
    ELSE IF /\ t = CDataStart
            /\ p.config.coalesce_characters
            /\ p.config.cdata_to_characters
    THEN into_state_continue(disable_errors(p), InsideCData)
    ELSE OutsideTagMarkup(p, t)

\* inside_doctype that leaves the lexer's errors disabled at the end
inside_doctype_NoEnable(p, t) ==
    IF t = TagEnd
    THEN into_state_continue(p, OutsideTag)
    ELSE Result(p, None)

inside_doctype(p, t) ==
    IF t = TagEnd
    THEN into_state_continue(enable_errors(p), OutsideTag)
    ELSE Result(p, None)

\* the capitalizations of "xml" listed in inside_processing_instruction
XmlLikeNames ==
    {<< x, m, l >> : x \in {"x", "X"}, m \in {"m", "M"}, l \in {"l", "L"}}

inside_processing_instruction(p, t, s) ==
    IF s = "PIInsideName"
    THEN IF /\ t.k = "Character"
            /\ \/ ~buf_has_data(p) /\ is_name_start_char(t.c)
               \/ buf_has_data(p) /\ is_name_char(t.c)
         THEN append_char_continue(p, t.c)
         ELSE IF t = ProcessingInstructionEnd
         THEN LET name == p.buf
                  p1 == take_buf(p)
              IN  IF name = << >>
                  THEN SelfError(p1, "Encountered processing instruction without name",
                                 << >>)
                  ELSE IF name \in XmlLikeNames
                  THEN SelfError(p1, "Invalid processing instruction: <?{}", << name >>)
                  ELSE into_state_emit(p1, OutsideTag,
                                       EvProcessingInstruction(name, None))
         ELSE IF t.k = "Whitespace"
         THEN LET name == p.buf
                  p1 == take_buf(p)
              IN  IF /\ name = << "x", "m", "l" >>
                     /\ ~p1.encountered_element
                     /\ ~p1.parsed_declaration
                  THEN into_state_continue(p1, InsideDeclaration("BeforeVersion"))
                  ELSE IF /\ name \in XmlLikeNames
                          /\ (p1.encountered_element \/ p1.parsed_declaration)
                  THEN SelfError(p1, "Invalid processing instruction: <?{}", << name >>)
                  ELSE into_state_continue(
                           [disable_errors(p1) EXCEPT !.data.name = name],
                           InsideProcessingInstruction("PIInsideData"))
         ELSE SelfError(p, "Unexpected token: <?{}{}", << p.buf, t >>)
    ELSE IF t = ProcessingInstructionEnd
         THEN LET p1 == enable_errors(p)
                  name == p1.data.name
                  data == p1.buf
              IN  into_state_emit(take_buf([p1 EXCEPT !.data.name = << >>]),
                                  OutsideTag,
                                  EvProcessingInstruction(name, Some(data)))
         ELSE Result([p EXCEPT !.buf = @ \o TokenToString(t)], None)

\* emit_start_document with the standalone value that was read left out
emit_start_document_NoStandalone(p) ==
    LET version == p.data.version
        encoding == p.data.encoding
        p1 == [p EXCEPT !.parsed_declaration = TRUE,
                        !.data.version = None,
                        !.data.encoding = None,
                        !.data.standalone = None]
    IN  into_state_emit(p1, OutsideTag,
            EvStartDocument(IF IsSome(version) THEN Unwrap(version) ELSE DEFAULT_VERSION,
                            IF IsSome(encoding) THEN Unwrap(encoding) ELSE DEFAULT_ENCODING,
                            None))

\* emit_start_document of inside_declaration
emit_start_document(p) ==
    LET version == p.data.version
        encoding == p.data.encoding
        standalone == p.data.standalone
        p1 == [p EXCEPT !.parsed_declaration = TRUE,
                        !.data.version = None,
                        !.data.encoding = None,
                        !.data.standalone = None]
    IN  into_state_emit(p1, OutsideTag,
            EvStartDocument(IF IsSome(version) THEN Unwrap(version) ELSE DEFAULT_VERSION,
                            IF IsSome(encoding) THEN Unwrap(encoding) ELSE DEFAULT_ENCODING,
                            standalone))

inside_declaration(p, t, s) ==
    CASE s = "BeforeVersion" ->
            IF t.k = "Whitespace" THEN Result(p, None)
            ELSE IF t = Character("v")
            THEN into_state_continue(p, InsideDeclaration("InsideVersion"))
            ELSE UnexpectedInDeclaration(p, t)
      [] s \in {"InsideVersion", "InsideEncoding", "InsideStandaloneDecl"} ->
            read_qualified_name(p, t, "AttributeNameTarget", s)
      [] s = "AfterVersion" ->
            IF t.k = "Whitespace" THEN Result(p, None)
            ELSE IF t = EqualsSign
            THEN into_state_continue(p, InsideDeclaration("InsideVersionValue"))
            ELSE UnexpectedInDeclaration(p, t)
      [] s \in {"InsideVersionValue", "InsideEncodingValue",
                "InsideStandaloneDeclValue"} ->
            read_attribute_value(p, t, s)
      [] s = "AfterVersionValue" ->
            IF t.k = "Whitespace" THEN Result(p, None)
            ELSE IF t = Character("e")
            THEN into_state_continue(p, InsideDeclaration("InsideEncoding"))
            ELSE IF t = Character("s")
            THEN into_state_continue(p, InsideDeclaration("InsideStandaloneDecl"))
            ELSE IF t = ProcessingInstructionEnd THEN emit_start_document(p)
            ELSE UnexpectedInDeclaration(p, t)
      [] s = "AfterEncoding" ->
            IF t.k = "Whitespace" THEN Result(p, None)
            ELSE IF t = EqualsSign
            THEN into_state_continue(p, InsideDeclaration("InsideEncodingValue"))
            ELSE UnexpectedInDeclaration(p, t)
      [] s = "BeforeStandaloneDecl" ->
            IF t.k = "Whitespace" THEN Result(p, None)
            ELSE IF t = Character("s")
            THEN into_state_continue(p, InsideDeclaration("InsideStandaloneDecl"))
            ELSE IF t = ProcessingInstructionEnd THEN emit_start_document(p)
            ELSE UnexpectedInDeclaration(p, t)
      [] s = "AfterStandaloneDecl" ->
            IF t.k = "Whitespace" THEN Result(p, None)
            ELSE IF t = EqualsSign
            THEN into_state_continue(p, InsideDeclaration("InsideStandaloneDeclValue"))
            ELSE UnexpectedInDeclaration(p, t)
      [] s = "AfterStandaloneDeclValue" ->
            IF t.k = "Whitespace" THEN Result(p, None)
            ELSE IF t = ProcessingInstructionEnd THEN emit_start_document(p)
            ELSE UnexpectedInDeclaration(p, t)

UnexpectedInOpeningTag(p, t) ==
    SelfError(p, "Unexpected token inside opening tag: {}", << TokenToString(t) >>)

inside_opening_tag(p, t, s) ==
    CASE s = "InsideName" ->
            read_qualified_name(p, t, "OpeningTagNameTarget", s)
      [] s = "InsideTag" ->
            IF t.k = "Whitespace" THEN Result(p, None)
            ELSE IF t.k = "Character" /\ is_name_start_char(t.c)
            THEN into_state_continue([p EXCEPT !.buf = Append(@, t.c)],
                                     InsideOpeningTag("InsideAttributeName"))
            ELSE IF t = TagEnd THEN emit_start_element(p, FALSE)
            ELSE IF t = EmptyTagEnd THEN emit_start_element(p, TRUE)
            ELSE UnexpectedInOpeningTag(p, t)
      [] s = "InsideAttributeName" ->
            read_qualified_name(p, t, "AttributeNameTarget", s)
      [] s = "AfterAttributeName" ->
            IF t.k = "Whitespace" THEN Result(p, None)
            ELSE IF t = EqualsSign
            THEN into_state_continue(p, InsideOpeningTag("InsideAttributeValue"))
            ELSE UnexpectedInOpeningTag(p, t)
      [] s = "InsideAttributeValue" ->
            read_attribute_value(p, t, s)

inside_closing_tag_name(p, t, s) ==
    IF s = "CTInsideName"
    THEN read_qualified_name(p, t, "ClosingTagNameTarget", s)
    ELSE IF t.k = "Whitespace" THEN Result(p, None)
    ELSE IF t = TagEnd THEN emit_end_element(p)
    ELSE SelfError(p, "Unexpected token inside closing tag: {}", << t >>)

\* inside_comment that keeps the text of a comment it ignores
inside_comment_KeepsText(p, t) ==
    IF t = Chunk(<< "-", "-" >>)
    THEN SelfError(p, "Unexpected token inside a comment: --", << >>)
    ELSE IF t = CommentEnd /\ p.config.ignore_comments
    THEN into_state_continue(enable_errors(p), OutsideTag)
    ELSE IF t = CommentEnd
    THEN into_state_emit(take_buf(enable_errors(p)), OutsideTag, EvComment(p.buf))
    ELSE append_str_continue(p, TokenToString(t))

inside_comment(p, t) ==
    IF t = Chunk(<< "-", "-" >>)
    THEN SelfError(p, "Unexpected token inside a comment: --", << >>)
    ELSE IF t = CommentEnd /\ p.config.ignore_comments
    THEN into_state_continue(enable_errors(p), OutsideTag)
    ELSE IF t = CommentEnd
    THEN into_state_emit(take_buf(enable_errors(p)), OutsideTag, EvComment(p.buf))
    ELSE IF p.config.ignore_comments
    THEN Result(p, None)
    ELSE append_str_continue(p, TokenToString(t))

inside_cdata(p, t) ==
    IF t = CDataEnd
    THEN LET p1 == enable_errors(p)
         IN  IF p1.config.cdata_to_characters
             THEN into_state(p1, OutsideTag, None)
             ELSE into_state(take_buf(p1), OutsideTag, Some(EvCData(p1.buf)))
    ELSE IF t.k = "Whitespace"
    THEN append_str_continue(p, TokenToString(t))
    ELSE append_str_continue([p EXCEPT !.inside_whitespace = FALSE], TokenToString(t))

(***************************************************************************)
(* References: std::num::from_str_radix and std::char::from_u32.           *)
(***************************************************************************)
\* the printable ASCII characters, from code 32 on
Ascii ==
    << " ", "!", "\"", "#", "$", "%", "&", "'", "(", ")", "*", "+", ",", "-",
       ".", "/", "0", "1", "2", "3", "4", "5", "6", "7", "8", "9", ":", ";",
       "<", "=", ">", "?", "@", "A", "B", "C", "D", "E", "F", "G", "H", "I",
       "J", "K", "L", "M", "N", "O", "P", "Q", "R", "S", "T", "U", "V", "W",
       "X", "Y", "Z", "[", "\\", "]", "^", "_", "U+96", "a", "b", "c", "d", "e",
       "f", "g", "h", "i", "j", "k", "l", "m", "n", "o", "p", "q", "r", "s",
       "t", "u", "v", "w", "x", "y", "z", "{", "|", "}", "~" >>

\* the value of a digit in the radix, or the radix itself for no digit
DigitValue(c, radix) ==
    LET i == IF \E k \in 1..Len(Ascii) : Ascii[k] = c
             THEN (CHOOSE k \in 1..Len(Ascii) : Ascii[k] = c) + 31
             ELSE 0
        v == IF i >= 48 /\ i <= 57 THEN i - 48
             ELSE IF i >= 97 /\ i <= 122 THEN i - 87
             ELSE IF i >= 65 /\ i <= 90 THEN i - 55
             ELSE radix
    IN  IF v < radix THEN v ELSE radix

\* the largest code point, char::MAX
MaxCodePoint == 1114111

\* from_str_radix::<u32>: None for an empty text, for a character that is
\* no digit and for an overflow.  Values past char::MAX stay just past it:
\* from_u32 refuses them all alike.
RECURSIVE ParseDigits(_, _, _)
ParseDigits(s, radix, acc) ==
    IF s = << >>
    THEN Some(acc)
    ELSE LET d == DigitValue(Head(s), radix)
         IN  IF d = radix
             THEN None
             ELSE LET n == acc * radix + d
                  IN  ParseDigits(Tail(s), radix,
                                  IF n > MaxCodePoint THEN MaxCodePoint + 1 ELSE n)

from_str_radix(s, radix) ==
    IF s = << >> THEN None ELSE ParseDigits(s, radix, 0)

\* char::from_u32: no character past char::MAX nor among the surrogates
from_u32(n) ==
    IF n > MaxCodePoint \/ (n >= 55296 /\ n <= 57343)
    THEN None
    ELSE IF n >= 32 /\ n <= 126
    THEN Some(Ascii[n - 31])
    ELSE Some("U+" \o ToString(n))

\* from_str_radix(num_str, radix).and_then(char::from_u32)
CharOfNumber(s, radix) ==
    LET n == from_str_radix(s, radix)
    IN  IF n = None THEN None ELSE from_u32(Unwrap(n))

\* the match on the reference's name in inside_reference: the character,
\* or the error; slice(0, 2) panics when byte 2 is inside a character
DecodeReference(name) ==
    LET name_len == ByteLen(name)
        Ok(c) == [ok |-> TRUE, panics |-> FALSE, c |-> c]
        Err(m, a) == [ok |-> FALSE, panics |-> FALSE, msg |-> m, args |-> a]
    IN  IF name = << "l", "t" >> THEN Ok("<")
        ELSE IF name = << "g", "t" >> THEN Ok(">")
        ELSE IF name = << "a", "m", "p" >> THEN Ok("&")
        ELSE IF name = << "a", "p", "o", "s" >> THEN Ok("'")
        ELSE IF name = << "q", "u", "o", "t" >> THEN Ok("\"")
        ELSE IF name = << >> THEN Err("Encountered empty entity", << >>)
        ELSE IF name_len > 2 /\ ~is_char_boundary(name, 2)
        THEN [ok |-> FALSE, panics |-> TRUE]
        ELSE IF name_len > 2 /\ SubSeq(name, 1, 2) = << "#", "x" >>
        THEN LET num_str == SubSeq(name, 3, name_len)
                 c == CharOfNumber(num_str, 16)
             IN  IF num_str = << "0" >>
                 THEN Err("Null character entity is not allowed", << >>)
                 ELSE IF IsSome(c) THEN Ok(Unwrap(c))
                 ELSE Err("Invalid hexadecimal character number in an entity: {}",
                          << name >>)
        ELSE IF name_len > 1 /\ name[1] = "#"
        THEN LET num_str == SubSeq(name, 2, name_len)
                 c == CharOfNumber(num_str, 10)
             IN  IF num_str = << "0" >>
                 THEN Err("Null character entity is not allowed", << >>)
                 ELSE IF IsSome(c) THEN Ok(Unwrap(c))
                 ELSE Err("Invalid decimal character number in an entity: {}",
                          << name >>)
        ELSE Err("Unexpected entity: {}", << name >>)

inside_reference(p, t, prev_st) ==
    IF /\ t.k = "Character"
       /\ \/ p.data.ref_data # << >> /\ is_name_char(t.c)
          \/ p.data.ref_data = << >> /\ (is_name_start_char(t.c) \/ t.c = "#")
    THEN Result([p EXCEPT !.data.ref_data = Append(@, t.c)], None)
    ELSE IF t = ReferenceEnd
    THEN LET p1 == [p EXCEPT !.data.ref_data = << >>]
             c == DecodeReference(p.data.ref_data)
         IN  IF c.ok
             THEN into_state_continue([p1 EXCEPT !.buf = Append(@, c.c)], prev_st)
             ELSE IF c.panics
             THEN Panic(p1, "inside_reference: slice(0, 2)")
             ELSE SelfError(p1, c.msg, c.args)
    ELSE SelfError(p, "Unexpected token inside an entity: {}", << t >>)

dispatch_token(p, t) ==
    CASE p.st[1] = "OutsideTag" -> outside_tag(p, t)
      [] p.st[1] = "InsideProcessingInstruction" ->
            inside_processing_instruction(p, t, p.st[2])
      [] p.st[1] = "InsideDeclaration" -> inside_declaration(p, t, p.st[2])
      [] p.st[1] = "InsideDoctype" -> inside_doctype(p, t)
      [] p.st[1] = "InsideOpeningTag" -> inside_opening_tag(p, t, p.st[2])
      [] p.st[1] = "InsideClosingTag" -> inside_closing_tag_name(p, t, p.st[2])
      [] p.st[1] = "InsideComment" -> inside_comment(p, t)
      [] p.st[1] = "InsideCData" -> inside_cdata(p, t)
      [] p.st[1] = "InsideReference" -> inside_reference(p, t, Tail(p.st))

(***************************************************************************)
(* PullParser::next, in its three parts.                                   *)
(***************************************************************************)
\* next_entry with the deferred pop forgotten: the flag cleared, no scope popped
next_entry_NoPop(p) ==
    IF IsSome(p.finish_event)
    THEN Result(p, p.finish_event)
    ELSE IF IsSome(p.next_event)
    THEN Result([p EXCEPT !.next_event = None], p.next_event)
    ELSE Result([p EXCEPT !.pop_namespace = FALSE], None)

\* next_entry with the deferred-pop flag left set after the pop
next_entry_KeepsFlag(p) ==
    IF IsSome(p.finish_event)
    THEN Result(p, p.finish_event)
    ELSE IF IsSome(p.next_event)
    THEN Result([p EXCEPT !.next_event = None], p.next_event)
    ELSE IF p.pop_namespace
    THEN Result([p EXCEPT !.nst = NstPop(@)], None)
    ELSE Result(p, None)

\* next_entry with the queued event never looked at
next_entry_IgnoresQueued(p) ==
    IF IsSome(p.finish_event)
    THEN Result(p, p.finish_event)
    ELSE IF p.pop_namespace
    THEN Result([p EXCEPT !.pop_namespace = FALSE, !.nst = NstPop(@)], None)
    ELSE Result(p, None)

\* the entry of next: the sticky event, else the queued event, else the
\* deferred namespace pop and no event yet
next_entry(p) ==
    IF IsSome(p.finish_event)
    THEN Result(p, p.finish_event)
    ELSE IF IsSome(p.next_event)
    THEN Result([p EXCEPT !.next_event = None], p.next_event)
    ELSE IF p.pop_namespace
    THEN Result([p EXCEPT !.pop_namespace = FALSE, !.nst = NstPop(@)], None)
    ELSE Result(p, None)

\* remember_terminal with the terminal event returned and not kept
remember_terminal_NotKept(r) == r

\* a terminal event that a handler emits is kept in finish_event
remember_terminal(r) ==
    IF IsSome(r.ev) /\ IsTerminal(Unwrap(r.ev))
    THEN Result([r.p EXCEPT !.finish_event = r.ev], r.ev)
    ELSE r

\* one round of the loop of next on a token: the dispatch, and the terminal
\* event stored
next_token(p, t) == remember_terminal(dispatch_token(p, t))

\* one round of the loop of next on a lexer error
next_lexer_error(p, e) ==
    LET ev == EvError("lexer", << e >>)
    IN  Result([p EXCEPT !.finish_event = Some(ev)], Some(ev))

\* next_end_of_stream with no event made of the end of the stream: the loop
\* asks the lexer again
next_end_of_stream_NoEvent(p) == Result(p, None)

\* next_end_of_stream with the state left out of the decision
next_end_of_stream_IgnoresState(p) ==
    LET ev == IF depth(p) = 0
              THEN IF p.encountered_element
                   THEN EvEndDocument
                   ELSE EvError("Unexpected end of stream: no root element found", << >>)
              ELSE EvError("Unexpected end of stream: still inside the root element",
                           << >>)
    IN  Result([p EXCEPT !.finish_event = Some(ev)], Some(ev))

\* the end of the stream in next
next_end_of_stream(p) ==
    LET ev == IF depth(p) = 0
              THEN IF p.encountered_element /\ p.st = OutsideTag
                   THEN EvEndDocument
                   ELSE IF ~p.encountered_element
                   THEN EvError("Unexpected end of stream: no root element found", << >>)
                   ELSE EvError("Unexpected end of stream", << >>)
              ELSE EvError("Unexpected end of stream: still inside the root element",
                           << >>)
    IN  Result([p EXCEPT !.finish_event = Some(ev)], Some(ev))

(***************************************************************************)
(* The inputs.  The lexer is either unscripted (it may yield any token of  *)
(* FreeTokens, an error or the end of the stream at any time, within the   *)
(* bound) or scripted (it yields the tokens of one document or of a        *)
(* prefix of it, then the end of the stream).                              *)
(***************************************************************************)
\* every ParserConfig
Configs ==
    [trim_whitespace : BOOLEAN, whitespace_to_characters : BOOLEAN,
     cdata_to_characters : BOOLEAN, ignore_comments : BOOLEAN,
     coalesce_characters : BOOLEAN]

\* the characters of the unscripted lexer
FreeChars == {"l", "t", ":"}

FreeTokens ==
    {ProcessingInstructionStart, ProcessingInstructionEnd, DoctypeStart,
     OpeningTagStart, ClosingTagStart, TagEnd, EmptyTagEnd, CommentStart,
     CommentEnd, CDataStart, CDataEnd, ReferenceStart, ReferenceEnd,
     DoubleQuote, SingleQuote, EqualsSign, Whitespace(" "),
     Chunk(<< "-", "-" >>)}
    \cup {Character(c) : c \in FreeChars}

\* the Character tokens of a text
Chars(s) == [i \in 1..Len(s) |-> Character(s[i])]

SP == << Whitespace(" ") >>

\* <a attr="zzz;zzz" />
DocSemicolon ==
    << Whitespace("\n"), OpeningTagStart >> \o Chars(<< "a" >>) \o SP
    \o Chars(<< "a", "t", "t", "r" >>) \o << EqualsSign, DoubleQuote >>
    \o Chars(<< "z", "z", "z" >>) \o << ReferenceEnd >>
    \o Chars(<< "z", "z", "z" >>) \o << DoubleQuote >> \o SP
    \o << EmptyTagEnd, Whitespace("\n") >>

\* <a attr="zzz<zzz" />
DocOpeningInValue ==
    << Whitespace("\n"), OpeningTagStart >> \o Chars(<< "a" >>) \o SP
    \o Chars(<< "a", "t", "t", "r" >>) \o << EqualsSign, DoubleQuote >>
    \o Chars(<< "z", "z", "z" >>) \o << OpeningTagStart >>
    \o Chars(<< "z", "z", "z" >>) \o << DoubleQuote >> \o SP
    \o << EmptyTagEnd, Whitespace("\n") >>

\* <?xml version="1.0" encoding="UTF-8" standalone="yes"?><r/>
DocDeclaration ==
    << ProcessingInstructionStart >> \o Chars(<< "x", "m", "l" >>) \o SP
    \o Chars(<< "v", "e", "r", "s", "i", "o", "n" >>) \o << EqualsSign, DoubleQuote >>
    \o Chars(<< "1", ".", "0" >>) \o << DoubleQuote >> \o SP
    \o Chars(<< "e", "n", "c", "o", "d", "i", "n", "g" >>)
    \o << EqualsSign, DoubleQuote >>
    \o Chars(<< "U", "T", "F", "-", "8" >>) \o << DoubleQuote >> \o SP
    \o Chars(<< "s", "t", "a", "n", "d", "a", "l", "o", "n", "e" >>)
    \o << EqualsSign, DoubleQuote >> \o Chars(<< "y", "e", "s" >>)
    \o << DoubleQuote, ProcessingInstructionEnd, OpeningTagStart >>
    \o Chars(<< "r" >>) \o << EmptyTagEnd >>

\* <a xmlns="http://x"><b/></a>
DocDefaultNamespace ==
    << OpeningTagStart >> \o Chars(<< "a" >>) \o SP
    \o Chars(<< "x", "m", "l", "n", "s" >>) \o << EqualsSign, DoubleQuote >>
    \o Chars(<< "h", "t", "t", "p", ":", "/", "/", "x" >>)
    \o << DoubleQuote, TagEnd, OpeningTagStart >> \o Chars(<< "b" >>)
    \o << EmptyTagEnd, ClosingTagStart >> \o Chars(<< "a" >>) \o << TagEnd >>

\* <a>&lt;&#65;&#x42;</a>
DocReferences ==
    << OpeningTagStart >> \o Chars(<< "a" >>) \o << TagEnd, ReferenceStart >>
    \o Chars(<< "l", "t" >>) \o << ReferenceEnd, ReferenceStart >>
    \o Chars(<< "#", "6", "5" >>) \o << ReferenceEnd, ReferenceStart >>
    \o Chars(<< "#", "x", "4", "2" >>) \o << ReferenceEnd, ClosingTagStart >>
    \o Chars(<< "a" >>) \o << TagEnd >>

\* <a></b>
DocMismatch ==
    << OpeningTagStart >> \o Chars(<< "a" >>) \o << TagEnd, ClosingTagStart >>
    \o Chars(<< "b" >>) \o << TagEnd >>

\* the empty input
DocEmpty == << >>

\* <?pi?><a/>
DocInstructionFirst ==
    << ProcessingInstructionStart >> \o Chars(<< "p", "i" >>)
    \o << ProcessingInstructionEnd, OpeningTagStart >> \o Chars(<< "a" >>)
    \o << EmptyTagEnd >>

\* <!--c--> <!DOCTYPE d> <?pi d?>
DocNoElement ==
    << CommentStart >> \o Chars(<< "c" >>) \o << CommentEnd >> \o SP
    \o << DoctypeStart >> \o SP \o Chars(<< "d" >>) \o << TagEnd >> \o SP
    \o << ProcessingInstructionStart >> \o Chars(<< "p", "i" >>) \o SP
    \o Chars(<< "d" >>) \o << ProcessingInstructionEnd >>

\* <?xml version="1.1"?> and no element
DocDeclarationOnly ==
    << ProcessingInstructionStart >> \o Chars(<< "x", "m", "l" >>) \o SP
    \o Chars(<< "v", "e", "r", "s", "i", "o", "n" >>) \o << EqualsSign, SingleQuote >>
    \o Chars(<< "1", ".", "1" >>) \o << SingleQuote, ProcessingInstructionEnd >>

\* <?xml version='1.0' encoding='l' ?> and no element
DocEncodingDeclared ==
    << ProcessingInstructionStart >> \o Chars(<< "x", "m", "l" >>) \o SP
    \o Chars(<< "v", "e", "r", "s", "i", "o", "n" >>) \o << EqualsSign, SingleQuote >>
    \o Chars(<< "1", ".", "0" >>) \o << SingleQuote >> \o SP
    \o Chars(<< "e", "n", "c", "o", "d", "i", "n", "g" >>)
    \o << EqualsSign, SingleQuote >> \o Chars(<< "l" >>) \o << SingleQuote >>
    \o SP \o << ProcessingInstructionEnd >>

\* <a b=x"y'&amp;;"/>
DocUnquoted ==
    << OpeningTagStart >> \o Chars(<< "a" >>) \o SP \o Chars(<< "b" >>)
    \o << EqualsSign >> \o Chars(<< "x" >>) \o << DoubleQuote >>
    \o Chars(<< "y" >>) \o << SingleQuote, ReferenceStart >>
    \o Chars(<< "a", "m", "p" >>) \o << ReferenceEnd, ReferenceEnd, DoubleQuote,
                                        EmptyTagEnd >>

\* <p:a xmlns:p="u" k = 'v"'><p:b/>t<![CDATA[c]]> </p:a >
DocPrefixed ==
    << OpeningTagStart >> \o Chars(<< "p", ":", "a" >>) \o SP
    \o Chars(<< "x", "m", "l", "n", "s", ":", "p" >>)
    \o << EqualsSign, DoubleQuote >> \o Chars(<< "u" >>) \o << DoubleQuote >> \o SP
    \o Chars(<< "k" >>) \o SP \o << EqualsSign >> \o SP \o << SingleQuote >>
    \o Chars(<< "v" >>) \o << DoubleQuote, SingleQuote, TagEnd, OpeningTagStart >>
    \o Chars(<< "p", ":", "b" >>) \o << EmptyTagEnd >> \o Chars(<< "t" >>)
    \o << CDataStart >> \o Chars(<< "c" >>) \o << CDataEnd >> \o SP
    \o << ClosingTagStart >> \o Chars(<< "p", ":", "a" >>) \o SP \o << TagEnd >>

\* <p:a/>
DocUnboundPrefix ==
    << OpeningTagStart >> \o Chars(<< "p", ":", "a" >>) \o << EmptyTagEnd >>

\* <a><b></b>   (the root is left open)
DocUnclosed ==
    << OpeningTagStart >> \o Chars(<< "a" >>) \o << TagEnd, OpeningTagStart >>
    \o Chars(<< "b" >>) \o << TagEnd, ClosingTagStart >> \o Chars(<< "b" >>)
    \o << TagEnd >>

\* <a/><?pi    (the stream ends inside a processing instruction)
DocEndsInsideMarkup ==
    << OpeningTagStart >> \o Chars(<< "a" >>)
    \o << EmptyTagEnd, ProcessingInstructionStart >> \o Chars(<< "p", "i" >>)

\* <a xmlns="u" k="v"><b xmlns="v" xmlns:p="w"><c p:k="v"/></b><p:d/>
\* (the parser stops at <p:d/>)
DocScopes ==
    << OpeningTagStart >> \o Chars(<< "a" >>) \o SP
    \o Chars(<< "x", "m", "l", "n", "s" >>) \o << EqualsSign, DoubleQuote >>
    \o Chars(<< "u" >>) \o << DoubleQuote >> \o SP \o Chars(<< "k" >>)
    \o << EqualsSign, DoubleQuote >> \o Chars(<< "v" >>)
    \o << DoubleQuote, TagEnd, OpeningTagStart >> \o Chars(<< "b" >>) \o SP
    \o Chars(<< "x", "m", "l", "n", "s" >>) \o << EqualsSign, DoubleQuote >>
    \o Chars(<< "v" >>) \o << DoubleQuote >> \o SP
    \o Chars(<< "x", "m", "l", "n", "s", ":", "p" >>)
    \o << EqualsSign, DoubleQuote >> \o Chars(<< "w" >>)
    \o << DoubleQuote, TagEnd, OpeningTagStart >> \o Chars(<< "c" >>) \o SP
    \o Chars(<< "p", ":", "k" >>) \o << EqualsSign, DoubleQuote >>
    \o Chars(<< "v" >>) \o << DoubleQuote, EmptyTagEnd, ClosingTagStart >>
    \o Chars(<< "b" >>) \o << TagEnd, OpeningTagStart >>
    \o Chars(<< "p", ":", "d" >>) \o << EmptyTagEnd >>

\* <a><b xmlns:p="w"/></p:a>
DocParentPrefix ==
    << OpeningTagStart >> \o Chars(<< "a" >>) \o << TagEnd, OpeningTagStart >>
    \o Chars(<< "b" >>) \o SP \o Chars(<< "x", "m", "l", "n", "s", ":", "p" >>)
    \o << EqualsSign, DoubleQuote >> \o Chars(<< "w" >>)
    \o << DoubleQuote, EmptyTagEnd, ClosingTagStart >>
    \o Chars(<< "p", ":", "a" >>) \o << TagEnd >>

\* <?xml ?>, <?xml?>, <?xml encoding="UTF-8"?> and <?xml vx="1.0"?>
DocsWithoutVersion ==
    {<< ProcessingInstructionStart >> \o Chars(<< "x", "m", "l" >>) \o SP
         \o << ProcessingInstructionEnd >>,
     << ProcessingInstructionStart >> \o Chars(<< "x", "m", "l" >>)
         \o << ProcessingInstructionEnd >>,
     << ProcessingInstructionStart >> \o Chars(<< "x", "m", "l" >>) \o SP
         \o Chars(<< "e", "n", "c", "o", "d", "i", "n", "g" >>)
         \o << EqualsSign, DoubleQuote >> \o Chars(<< "U", "T", "F", "-", "8" >>)
         \o << DoubleQuote, ProcessingInstructionEnd >>,
     << ProcessingInstructionStart >> \o Chars(<< "x", "m", "l" >>) \o SP
         \o Chars(<< "v", "x" >>) \o << EqualsSign, DoubleQuote >>
         \o Chars(<< "1", ".", "0" >>)
         \o << DoubleQuote, ProcessingInstructionEnd >>}

\* more input documents, by name
NamedDocs ==
    [\* <?XML d?>
     upper_case_xml |->
         << ProcessingInstructionStart >> \o Chars(<< "X", "M", "L" >>) \o SP
         \o Chars(<< "d" >>) \o << ProcessingInstructionEnd >>,
     \* <?xml vp:ersion="1.0"?>
     prefixed_version |->
         << ProcessingInstructionStart >> \o Chars(<< "x", "m", "l" >>) \o SP
         \o Chars(<< "v", "p", ":", "e", "r", "s", "i", "o", "n" >>)
         \o << EqualsSign, DoubleQuote >> \o Chars(<< "1", ".", "0" >>)
         \o << DoubleQuote, ProcessingInstructionEnd >>,
     \* <a>&#00;&#x00;</a>
     zero_references |->
         << OpeningTagStart >> \o Chars(<< "a" >>) \o << TagEnd, ReferenceStart >>
         \o Chars(<< "#", "0", "0" >>) \o << ReferenceEnd, ReferenceStart >>
         \o Chars(<< "#", "x", "0", "0" >>) \o << ReferenceEnd, ClosingTagStart >>
         \o Chars(<< "a" >>) \o << TagEnd >>,
     \* <a xmlns="xml"/>
     default_is_xml_prefix |->
         << OpeningTagStart >> \o Chars(<< "a" >>) \o SP
         \o Chars(NS_XMLNS_PREFIX) \o << EqualsSign, DoubleQuote >>
         \o Chars(NS_XML_PREFIX) \o << DoubleQuote, EmptyTagEnd >>,
     \* <a xmlns="http://www.w3.org/XML/1998/namespace"/>
     default_is_xml_uri |->
         << OpeningTagStart >> \o Chars(<< "a" >>) \o SP
         \o Chars(NS_XMLNS_PREFIX) \o << EqualsSign, DoubleQuote >>
         \o Chars(NS_XML_URI) \o << DoubleQuote, EmptyTagEnd >>,
     \* <a :b="v"/>
     colon_first |->
         << OpeningTagStart >> \o Chars(<< "a" >>) \o SP
         \o Chars(<< ":", "b" >>) \o << EqualsSign, DoubleQuote >>
         \o Chars(<< "v" >>) \o << DoubleQuote, EmptyTagEnd >>,
     \* <a>x<!--c-->y</a>
     comment_in_text |->
         << OpeningTagStart >> \o Chars(<< "a" >>) \o << TagEnd >>
         \o Chars(<< "x" >>) \o << CommentStart >> \o Chars(<< "c" >>)
         \o << CommentEnd >> \o Chars(<< "y" >>) \o << ClosingTagStart >>
         \o Chars(<< "a" >>) \o << TagEnd >>,
     \* &lt;<a>
     reference_before_root |->
         << ReferenceStart >> \o Chars(<< "l", "t" >>) \o << ReferenceEnd >>
         \o << OpeningTagStart >> \o Chars(<< "a" >>) \o << TagEnd >>,
     \* <a>&a\u00E9;
     non_ascii_reference |->
         << OpeningTagStart >> \o Chars(<< "a" >>) \o << TagEnd >>
         \o << ReferenceStart >> \o Chars(<< "a", "U+233" >>)
         \o << ReferenceEnd >>]

Docs ==
    {DocSemicolon, DocOpeningInValue, DocDeclaration, DocDefaultNamespace,
     DocReferences, DocMismatch, DocEmpty, DocInstructionFirst, DocNoElement,
     DocDeclarationOnly, DocUnquoted, DocPrefixed, DocUnboundPrefix,
     DocUnclosed, DocEndsInsideMarkup, DocScopes, DocParentPrefix,
     DocEncodingDeclared}
        \cup DocsWithoutVersion
        \cup {NamedDocs[d] : d \in DOMAIN NamedDocs}

(***************************************************************************)
(* The state: the fields of PullParser, then the caller's side.            *)
(***************************************************************************)
VARIABLES
    config,               \* ParserConfig
    lexer,                \* PullLexer: skip_errors, its input and its place in it
    st,                   \* State
    buf,                  \* String
    nst,                  \* NamespaceStack
    data,                 \* MarkupData
    finish_event,         \* Option<XmlEvent>
    next_event,           \* Option<XmlEvent>
    est,                  \* ElementStack
    encountered_element,
    parsed_declaration,
    inside_whitespace,
    read_prefix_separator,
    pop_namespace,
    pc,                   \* "idle" between calls of next, "loop" inside one,
                          \* "panicked" after a panic
    panic,                \* the site of the panic, if any
    ret,                  \* the event the latest finished call returned
    token,                \* the token the current (or latest) call took
                          \* last, if it took any
    first,                \* the kind of the first event returned
    n_start_document,     \* the StartDocument events returned
    unmatched,            \* names of the StartElements returned and not yet
                          \* followed by their EndElement, innermost last
    balance,              \* StartElements returned minus EndElements returned
    between,              \* the text seen since the opening quote of a value
    log                   \* a scripted run's events, up to the terminal one

parser_vars ==
    << config, lexer, st, buf, nst, data, finish_event, next_event, est,
       encountered_element, parsed_declaration, inside_whitespace,
       read_prefix_separator, pop_namespace >>

caller_vars ==
    << ret, first, n_start_document, unmatched, balance, log >>

vars ==
    << parser_vars, pc, panic, token, between, caller_vars >>

\* the parser as one record
Self ==
    [config |-> config, lexer |-> lexer, st |-> st, buf |-> buf, nst |-> nst,
     data |-> data, finish_event |-> finish_event, next_event |-> next_event,
     est |-> est, encountered_element |-> encountered_element,
     parsed_declaration |-> parsed_declaration,
     inside_whitespace |-> inside_whitespace,
     read_prefix_separator |-> read_prefix_separator,
     pop_namespace |-> pop_namespace]

\* the parser's fields become those of q
Commit(q) ==
    /\ config' = q.config
    /\ lexer' = q.lexer
    /\ st' = q.st
    /\ buf' = q.buf
    /\ nst' = q.nst
    /\ data' = q.data
    /\ finish_event' = q.finish_event
    /\ next_event' = q.next_event
    /\ est' = q.est
    /\ encountered_element' = q.encountered_element
    /\ parsed_declaration' = q.parsed_declaration
    /\ inside_whitespace' = q.inside_whitespace
    /\ read_prefix_separator' = q.read_prefix_separator
    /\ pop_namespace' = q.pop_namespace

\* PullParser::new, on a lexer with its input
Init ==
    /\ config \in Configs
    /\ lexer \in {[skip_errors |-> FALSE, scripted |-> FALSE, pos |-> 0,
                    input |-> << >>]}
                 \cup {[skip_errors |-> FALSE, scripted |-> TRUE, pos |-> 0,
                        input |-> d] : d \in Docs}
    /\ st = OutsideTag
    /\ buf = << >>
    /\ nst = NamespaceStackDefault
    /\ data = EmptyMarkupData
    /\ finish_event = None
    /\ next_event = None
    /\ est = << >>
    /\ encountered_element = FALSE
    /\ parsed_declaration = FALSE
    /\ inside_whitespace = TRUE
    /\ read_prefix_separator = FALSE
    /\ pop_namespace = FALSE
    /\ pc = "idle"
    /\ panic = None
    /\ ret = None
    /\ token = None
    /\ first = None
    /\ n_start_document = 0
    /\ unmatched = << >>
    /\ balance = 0
    /\ between = None
    /\ log = << >>

\* the caller receives ev
Observe(ev) ==
    /\ ret' = Some(ev)
    /\ first' = IF first = None THEN Some(ev.kind) ELSE first
    /\ n_start_document' =
           n_start_document + IF ev.kind = "StartDocument" THEN 1 ELSE 0
    /\ unmatched' =
           IF ev.kind = "StartElement" THEN Append(unmatched, ev.name)
           ELSE IF ev.kind = "EndElement" /\ unmatched # << >>
           THEN SubSeq(unmatched, 1, Len(unmatched) - 1)
           ELSE unmatched
    /\ balance' =
           IF ev.kind = "StartElement" THEN balance + 1
           ELSE IF ev.kind = "EndElement" THEN balance - 1
           ELSE balance
    /\ log' =
           IF lexer.scripted /\ ~(IsSome(ret) /\ IsTerminal(Unwrap(ret)))
           THEN Append(log, ev)
           ELSE log

\* a part of next ends with the result r: the call goes on, returns or
\* panics
Finish(r) ==
    /\ Commit(r.p)
    /\ IF r.ev = None
       THEN pc' = "loop" /\ UNCHANGED << panic, caller_vars >>
       ELSE IF Unwrap(r.ev).kind = "Panic"
       THEN pc' = "panicked" /\ panic' = Some(Unwrap(r.ev).site)
            /\ UNCHANGED caller_vars
       ELSE pc' = "idle" /\ Observe(Unwrap(r.ev)) /\ UNCHANGED panic

\* the states in which read_attribute_value runs
ValueStates ==
    {InsideOpeningTag("InsideAttributeValue"),
     InsideDeclaration("InsideVersionValue"),
     InsideDeclaration("InsideEncodingValue"),
     InsideDeclaration("InsideStandaloneDeclValue")}

\* the text between the quotes of the value being read, as the tokens give
\* it: empty at the opening quote, then each token's text, a reference
\* counting as the character it stands for
BetweenAfter(p, t, r) ==
    IF p.st \in ValueStates
    THEN IF p.data.quote = None
         THEN IF t.k \in {"DoubleQuote", "SingleQuote"} THEN Some(<< >>) ELSE between
         ELSE IF t = QuoteAsToken(Unwrap(p.data.quote)) THEN None
         ELSE IF t = ReferenceStart \/ IsSome(r.ev) THEN between
         ELSE Some(Unwrap(between) \o TokenToString(t))
    ELSE IF /\ p.st[1] = "InsideReference"
            /\ Tail(p.st) \in ValueStates
            /\ t = ReferenceEnd
            /\ r.ev = None
            /\ IsSome(between)
    THEN Some(Append(Unwrap(between), DecodeReference(p.data.ref_data).c))
    ELSE between

(***************************************************************************)
(* The actions.                                                            *)
(***************************************************************************)
\* next is called and returns the sticky terminal event
NextSticky ==
    /\ pc = "idle"
    /\ IsSome(finish_event)
    /\ token' = None
    /\ Finish(next_entry(Self))
    /\ UNCHANGED between

\* next is called and returns the queued event
NextQueued ==
    /\ pc = "idle"
    /\ finish_event = None
    /\ IsSome(next_event)
    /\ token' = None
    /\ Finish(next_entry(Self))
    /\ UNCHANGED between

\* next is called and enters its loop, after the deferred namespace pop
NextBegin ==
    /\ pc = "idle"
    /\ finish_event = None
    /\ next_event = None
    /\ token' = None
    /\ Finish(next_entry(Self))
    /\ UNCHANGED between

\* the lexer's next_token yields Ok(t): the tokens it may yield, each with
\* the parser after the lexer moved on
LexerYields ==
    IF lexer.scripted
    THEN IF lexer.pos < Len(lexer.input)
         THEN {[t |-> lexer.input[lexer.pos + 1],
                p |-> [Self EXCEPT !.lexer.pos = @ + 1]]}
         ELSE {}
    ELSE IF lexer.pos < MaxTokens
    THEN {[t |-> t, p |-> [Self EXCEPT !.lexer.pos = @ + 1]] : t \in FreeTokens}
    ELSE {}

\* the round that took the token t in the parser p ends with the result r
TokenFinish(p, t, r) ==
    /\ Finish(r)
    /\ token' = Some(t)
    /\ between' = BetweenAfter(p, t, r)

\* one round of the loop of next, in a state whose handler is `handler`
TokenStep(handler) ==
    /\ pc = "loop"
    /\ st[1] = handler
    /\ \E y \in LexerYields : TokenFinish(y.p, y.t, next_token(y.p, y.t))

OutsideTagStep == TokenStep("OutsideTag")

InsideProcessingInstructionStep == TokenStep("InsideProcessingInstruction")

InsideDeclarationStep == TokenStep("InsideDeclaration")

InsideDoctypeStep == TokenStep("InsideDoctype")

InsideOpeningTagStep == TokenStep("InsideOpeningTag")

InsideClosingTagStep == TokenStep("InsideClosingTag")

InsideCommentStep == TokenStep("InsideComment")

InsideCDataStep == TokenStep("InsideCData")

InsideReferenceStep == TokenStep("InsideReference")

\* the lexer's next_token yields Err(e), which only a lexer that reports
\* errors does: the input holds a character no token starts with
LexerError ==
    /\ pc = "loop"
    /\ ~lexer.skip_errors
    /\ ~lexer.scripted
    /\ lexer.pos < MaxTokens
    /\ Finish(next_lexer_error([Self EXCEPT !.lexer.pos = @ + 1],
                               "unexpected character"))
    /\ token' = None
    /\ UNCHANGED between

\* the lexer's next_token yields None: the stream ends, a scripted one at
\* the end of its document or of any prefix of it
EndOfStream ==
    /\ pc = "loop"
    /\ Finish(next_end_of_stream(Self))
    /\ UNCHANGED << token, between >>

Next ==
    \/ NextSticky
    \/ NextQueued
    \/ NextBegin
    \/ EndOfStream
    \/ LexerError
    \/ OutsideTagStep
    \/ InsideProcessingInstructionStep
    \/ InsideDeclarationStep
    \/ InsideDoctypeStep
    \/ InsideOpeningTagStep
    \/ InsideClosingTagStep
    \/ InsideCommentStep
    \/ InsideCDataStep
    \/ InsideReferenceStep

Spec == Init /\ [][Next]_vars

\* the caller calls next again and again, the loop of next runs on, and the
\* lexer answers every next_token
FairSpec == Spec /\ WF_vars(Next)

(***************************************************************************)
(* The properties.                                                         *)
(***************************************************************************)
\* the latest call of next returned a terminal event
Terminated == IsSome(ret) /\ IsTerminal(Unwrap(ret))

\* this step ends a call of next, which returns ret'
Returns == pc' = "idle"

\* C1: once a call of next has returned an Error or EndDocument event,
\* every later call returns an event equal to it, whatever tokens remain
C1_TerminalIsSticky ==
    [][Terminated => (pc' = "idle" /\ ret' = ret)]_vars

\* an Error that a token brought was returned, and then returned again by
\* a call that took no token, with tokens left in the input
C1_Witness ==
    /\ pc = "idle"
    /\ Terminated
    /\ Unwrap(ret).kind = "Error"
    /\ Unwrap(ret).msg = "Unexpected token inside attribute value: <"
    /\ token = None
    /\ lexer.scripted
    /\ lexer.pos < Len(lexer.input)

\* C2: when EndDocument is returned, the first event returned was
\* StartDocument, exactly one StartDocument was returned, and so no other
\* event came before it
C2_StartDocumentFirst ==
    (IsSome(ret) /\ Unwrap(ret) = EvEndDocument)
        => (first = Some("StartDocument") /\ n_start_document = 1)

\* C3: the StartElement and EndElement events returned are properly
\* nested: an EndElement carries the name of the latest unmatched
\* StartElement, none is returned when nothing is unmatched, and at
\* EndDocument every StartElement has been matched
C3_ProperNesting ==
    [][Returns =>
         /\ Unwrap(ret').kind = "EndElement" =>
                /\ unmatched # << >>
                /\ Unwrap(ret').name = unmatched[Len(unmatched)]
         /\ Unwrap(ret') = EvEndDocument => unmatched' = << >>]_vars

\* an inner element was closed inside an element that is still open
C3_Witness ==
    /\ pc = "idle"
    /\ IsSome(ret)
    /\ Unwrap(ret).kind = "EndElement"
    /\ Len(unmatched) = 1
    /\ Unwrap(ret).name # unmatched[1]

\* this step takes the token t from the lexer
Takes(t) == pc = "loop" /\ lexer'.pos = lexer.pos + 1 /\ token' = Some(t)

\* an opening tag is where EmptyTagEnd ends it: after its name and between
\* its attributes, or right after the characters of a well-formed name
EmptyTagEndEndsTag ==
    \/ st = InsideOpeningTag("InsideTag")
    \/ st = InsideOpeningTag("InsideName") /\ IsSome(parse_name(buf))

\* the errors of a prefix that is reserved or not bound
PrefixErrors ==
    {"'{}' cannot be an element name prefix", "Element {} prefix is unbound",
     "Attribute {} prefix is unbound"}

\* the call that returned StartElement on EmptyTagEnd is followed by one
\* that returns the EndElement of the same name and takes no token
QueuedEndElementFollows ==
    (/\ pc = "idle"
     /\ token = Some(EmptyTagEnd)
     /\ IsSome(ret)
     /\ Unwrap(ret).kind = "StartElement")
        => /\ pc' = "idle"
           /\ token' = None
           /\ lexer' = lexer
           /\ ret' = Some(EvEndElement(Unwrap(ret).name))

MismatchReturned ==
    /\ Terminated
    /\ Unwrap(ret).kind = "Error"
    /\ Unwrap(ret).msg = "Unexpected closing tag: {}, expected {}"

\* C5: after every call of next, the depth of the element stack is the
\* number of StartElement events returned minus that of EndElement events
C5_DepthIsBalance ==
    pc = "idle" => Len(est) = balance

\* C5, amended: after every call of next, the depth of the element stack
\* is the number of StartElement events returned minus that of EndElement
\* events, less one while the EndElement of a self-closing element waits in
\* next_event, and less one once the Error of a closing tag that does not
\* match has been returned
C5_DepthIsBalanceButQueued ==
    pc = "idle" =>
        Len(est) = balance - (IF IsSome(next_event) THEN 1 ELSE 0)
                           - (IF MismatchReturned THEN 1 ELSE 0)

\* the StartElement of a self-closing element inside an open element was
\* returned, its EndElement waiting
C5_Witness ==
    /\ pc = "idle"
    /\ IsSome(next_event)
    /\ Len(est) = 1
    /\ balance = 2

\* the event the end of the stream calls for
EndOfStreamEvent ==
    IF Len(est) = 0 /\ encountered_element /\ st = OutsideTag
    THEN EvEndDocument
    ELSE IF Len(est) > 0
    THEN EvError("Unexpected end of stream: still inside the root element", << >>)
    ELSE IF ~encountered_element
    THEN EvError("Unexpected end of stream: no root element found", << >>)
    ELSE EvError("Unexpected end of stream", << >>)

\* C6: at the end of the stream next returns EndDocument if and only if
\* the element stack is empty, an element has been seen and the state is
\* OutsideTag; otherwise an Error that says so: still inside the root
\* element at depth > 0, no root element found when none was seen, and
\* plainly the end of the stream in the remaining case
C6_EndOfStream ==
    [][(pc = "loop" /\ pc' = "idle" /\ lexer' = lexer)
           => ret' = Some(EndOfStreamEvent)]_vars

\* the stream ended inside markup after the root element was closed
C6_Witness ==
    /\ pc = "idle"
    /\ ret = Some(EvError("Unexpected end of stream", << >>))
    /\ encountered_element
    /\ st # OutsideTag

\* C7: an input with no element at all makes the parser return a
\* StartDocument event and then an Error event
C7_NoElement ==
    (/\ pc = "idle"
     /\ ret = Some(EvError("Unexpected end of stream: no root element found",
                           << >>)))
        => n_start_document = 1

\* the name of the closing tag that TagEnd ends, as the tag spells it
ClosingTagRawName ==
    IF st = InsideClosingTag("CTInsideName")
    THEN parse_name(buf)
    ELSE data.element_name

\* TagEnd ends a closing tag whose name may be an element's and resolves to
\* a name other than the one on top of the element stack
ClosingTagMismatches ==
    /\ st[1] = "InsideClosingTag"
    /\ Takes(TagEnd)
    /\ IsSome(ClosingTagRawName)
    /\ ~HasReservedPrefix(Unwrap(ClosingTagRawName))
    /\ IsSome(ResolveName(nst, Unwrap(ClosingTagRawName)))
    /\ est # << >>
    /\ Unwrap(ResolveName(nst, Unwrap(ClosingTagRawName))) # est[Len(est)]

\* the events of <a></b>
MismatchEvents ==
    << EvStartDocument(DEFAULT_VERSION, DEFAULT_ENCODING, DEFAULT_STANDALONE),
       EvStartElement(Name(None, << "a" >>), << >>,
                      NstSquash(NstPushEmpty(NamespaceStackDefault))),
       EvError("Unexpected closing tag: {}, expected {}",
               << Name(None, << "b" >>), Name(None, << "a" >>) >>) >>

\* C8: a closing tag whose resolved name differs from the name on top of
\* the element stack makes next return the Error of an unexpected closing
\* tag, with that name and the open one, and no EndElement; the events of
\* <a></b> are StartDocument, StartElement a and that Error
C8_MismatchedClosingTag ==
    /\ [][ClosingTagMismatches =>
             /\ pc' = "idle"
             /\ ret' = Some(EvError("Unexpected closing tag: {}, expected {}",
                     << Unwrap(ResolveName(nst, Unwrap(ClosingTagRawName))),
                        est[Len(est)] >>))
             /\ unmatched' = unmatched]_vars
    /\ []((/\ pc = "idle"
           /\ lexer.input = DocMismatch
           /\ lexer.pos = Len(DocMismatch)) => log = MismatchEvents)

\* all of <a></b> was read and the Error returned
C8_Witness ==
    /\ pc = "idle"
    /\ lexer.input = DocMismatch
    /\ lexer.pos = Len(DocMismatch)
    /\ MismatchReturned

C10_ValueIsBetweenQuotes ==
    [][(/\ st = InsideOpeningTag("InsideAttributeValue")
        /\ IsSome(data.quote)
        /\ Takes(QuoteAsToken(Unwrap(data.quote))))
           => buf = Unwrap(between)]_vars

\* the element a, no prefix and no namespace, as the events name it
PlainA == Name(None, << "a" >>)

\* the events of <a>&lt;&#65;&#x42;</a> up to EndElement
ReferencesEvents ==
    << EvStartDocument(DEFAULT_VERSION, DEFAULT_ENCODING, DEFAULT_STANDALONE),
       EvStartElement(PlainA, << >>,
                      NstSquash(NstPushEmpty(NamespaceStackDefault))),
       EvCharacters(<< "<", "A", "B" >>),
       EvEndElement(PlainA) >>

\* C11: with trim_whitespace and whitespace_to_characters off, content made
\* of references to non-whitespace characters is returned as one Characters
\* event with the decoded characters: <a>&lt;&#65;&#x42;</a> gives
\* StartDocument, StartElement a, Characters("<AB"), EndElement a,
\* EndDocument
C11_ReferencesAreCharacters ==
    (/\ pc = "idle"
     /\ ~config.trim_whitespace
     /\ ~config.whitespace_to_characters
     /\ lexer.input = DocReferences
     /\ lexer.pos = Len(DocReferences))
        => \/ log = ReferencesEvents
           \/ log = Append(ReferencesEvents, EvEndDocument)

\* this step returns a StartElement event
ReturnsStartElement == Returns /\ Unwrap(ret').kind = "StartElement"

\* the namespace that the innermost scope binding the prefix gives a name
InnermostNamespace(stack, pfx) ==
    LET holders == {i \in 1..Len(stack) : pfx \in DOMAIN stack[i]}
        inner == CHOOSE i \in holders : \A j \in holders : j <= i
    IN  IF stack[inner][pfx] = << >> THEN None ELSE Some(stack[inner][pfx])

\* the URI http://x
UriX == << "h", "t", "t", "p", ":", "/", "/", "x" >>

\* the kinds of the events of the log
LogKinds == [i \in 1..Len(log) |-> log[i].kind]

\* the events of <a xmlns="http://x"><b/></a> up to the EndElement of a
DefaultNamespaceEvents ==
    /\ Len(log) >= 5
    /\ SubSeq(LogKinds, 1, 5) = << "StartDocument", "StartElement",
                                   "StartElement", "EndElement", "EndElement" >>
    /\ log[2].name = [Name(None, << "a" >>) EXCEPT !.namespace = Some(UriX)]
    /\ log[2].namespace[None] = UriX
    /\ log[3].name = [Name(None, << "b" >>) EXCEPT !.namespace = Some(UriX)]
    /\ log[3].namespace[None] = UriX
    /\ log[4].name = log[3].name
    /\ log[5].name = log[2].name
    /\ Len(log) = 6 => log[6] = EvEndDocument
    /\ Len(log) <= 6

\* C12: an element name without prefix gets the namespace of the innermost
\* default-namespace binding around it; for <a xmlns="http://x"><b/></a>
\* both StartElements carry a snapshot with the default bound to http://x,
\* the names of a and b have that namespace, and EndElement b, EndElement a
\* and EndDocument end the events
C12_DefaultNamespace ==
    /\ [][(ReturnsStartElement /\ Unwrap(ret').name.prefix = None)
             => Unwrap(ret').name.namespace = InnermostNamespace(nst', None)]_vars
    /\ []((/\ pc = "idle"
           /\ lexer.input = DocDefaultNamespace
           /\ lexer.pos = Len(DocDefaultNamespace)) => DefaultNamespaceEvents)

\* the element c of DocScopes was returned with the namespace v of the
\* inner default binding, which shadows the outer one
C12_Witness ==
    /\ pc = "idle"
    /\ IsSome(ret)
    /\ Unwrap(ret).kind = "StartElement"
    /\ Unwrap(ret).name.local_name = << "c" >>
    /\ Unwrap(ret).name.namespace = Some(<< "v" >>)
    /\ Len(nst) = 4

\* the namespace of the name is absent or the one the snapshot binds to
\* the prefix of the name
FromSnapshot(name, snapshot) ==
    \/ name.namespace = None
    \/ /\ name.prefix \in DOMAIN snapshot
       /\ name.namespace = Some(snapshot[name.prefix])

\* the names of the opening tag that TagEnd or EmptyTagEnd is about to end
PendingNames ==
    IF st = InsideOpeningTag("InsideTag")
    THEN << Unwrap(data.element_name) >>
         \o [i \in 1..Len(data.attributes) |-> data.attributes[i].name]
    ELSE << Unwrap(parse_name(buf)) >>

\* the names of a StartElement event: the element's, then the attributes'
EventNames(e) ==
    << e.name >> \o [i \in 1..Len(e.attributes) |-> e.attributes[i].name]

\* C13: in every StartElement returned the namespace of the element name and
\* of each attribute name is absent or is the URI that the snapshot of the
\* same event binds to the prefix of the name, and every prefix is bound; an
\* opening tag with a name whose prefix the stack binds nowhere ends in an
\* Error, not in a StartElement
C13_NamespacesFromSnapshot ==
    [][/\ ReturnsStartElement
           => LET e == Unwrap(ret')
              IN  \A i \in 1..(1 + Len(e.attributes)) :
                      /\ FromSnapshot(EventNames(e)[i], e.namespace)
                      /\ EventNames(e)[i].prefix \in DOMAIN e.namespace
       /\ (/\ EmptyTagEndEndsTag
           /\ Takes(TagEnd) \/ Takes(EmptyTagEnd)
           /\ \E i \in 1..Len(PendingNames) :
                  NstGet(nst, PendingNames[i].prefix) = None)
           => /\ pc' = "idle"
              /\ Unwrap(ret').kind = "Error"
              /\ Unwrap(ret').msg \in {"Element {} prefix is unbound",
                                       "Attribute {} prefix is unbound"}]_vars

\* the element c of DocScopes was returned with its attribute p:k in the
\* namespace w, and the tag <p:d/> after it ended in the unbound-prefix Error
C13_Witness ==
    /\ pc = "idle"
    /\ Len(log) >= 4
    /\ log[4].kind = "StartElement"
    /\ Len(log[4].attributes) = 1
    /\ log[4].attributes[1].name.prefix = Some(<< "p" >>)
    /\ log[4].attributes[1].name.namespace = Some(<< "w" >>)
    /\ log[Len(log)].kind = "Error"
    /\ log[Len(log)].msg = "Element {} prefix is unbound"

\* a step changes the namespace stack in one of three ways only: it pushes
\* an empty scope, it pops the top scope, or it binds in the top scope
ScopedStackStep ==
    \/ nst' = nst
    \/ nst' = NstPushEmpty(nst)
    \/ pop_namespace /\ nst' = NstPop(nst)
    \/ /\ Len(nst') = Len(nst)
       /\ \A i \in 1..(Len(nst) - 1) : nst'[i] = nst[i]

\* a tag starts in the content: its name is the next name to be resolved
TagStarts ==
    st = OutsideTag /\ (Takes(OpeningTagStart) \/ Takes(ClosingTagStart))

\* the events of DocScopes: c's attribute p:k and b's closing tag are
\* resolved by the bindings of b, the sibling <p:d/> of b is not
ScopesEvents ==
    /\ LogKinds = << "StartDocument", "StartElement", "StartElement",
                     "StartElement", "EndElement", "EndElement", "Error" >>
    /\ log[4].name.namespace = Some(<< "v" >>)
    /\ log[4].attributes[1].name.namespace = Some(<< "w" >>)
    /\ log[6].name = log[3].name
    /\ log[6].name.namespace = Some(<< "v" >>)
    /\ log[7].msg = "Element {} prefix is unbound"
    /\ log[7].args = << Name(Some(<< "p" >>), << "d" >>) >>

\* the events of DocParentPrefix: the closing tag of the parent a of b is
\* not resolved by the binding of b
ParentPrefixEvents ==
    /\ LogKinds = << "StartDocument", "StartElement", "StartElement",
                     "EndElement", "Error" >>
    /\ log[5].msg = "Element {} prefix is unbound"
    /\ log[5].args = << Name(Some(<< "p" >>), << "a" >>) >>

\* C14: the bindings declared on an element live in the scope pushed for its
\* opening tag: they resolve the names of the element, of its descendants and
\* of its own closing tag, and the scope is gone when the next tag starts
\* after the element's EndElement, so that a sibling or the parent that uses
\* a prefix declared only on the element gets the unbound-prefix Error
C14_BindingScope ==
    /\ [][ScopedStackStep]_vars
    /\ [][TagStarts => Len(nst) = Len(NamespaceStackDefault) + Len(est)]_vars
    /\ []((/\ pc = "idle"
           /\ lexer.input = DocScopes
           /\ lexer.pos = Len(DocScopes)) => ScopesEvents)
    /\ []((/\ pc = "idle"
           /\ lexer.input = DocParentPrefix
           /\ lexer.pos = Len(DocParentPrefix)) => ParentPrefixEvents)

\* the tag <p:d/> of DocScopes, a sibling of b, ended in the unbound-prefix
\* Error after the EndElement of b, whose tag declared p
C14_Witness ==
    /\ pc = "idle"
    /\ lexer.input = DocScopes
    /\ lexer.pos = Len(DocScopes)
    /\ Len(log) = 7
    /\ log[7].kind = "Error"

\* a call that returns took a token, or returns the queued event, which
\* leaves none queued, or returns a terminal event
PullMakesProgress ==
    Returns => \/ IsSome(token')
               \/ IsSome(next_event) /\ ret' = next_event /\ next_event' = None
               \/ IsTerminal(Unwrap(ret'))

\* C15: on a finite token stream every call of next returns, and repeated
\* calls end up returning a terminal event (EndDocument or Error): a call
\* that returns has taken a token, or returns the one queued event, or
\* returns the terminal event
C15_Terminates ==
    /\ [][PullMakesProgress]_vars
    /\ (pc = "loop") ~> (pc = "idle")
    /\ <>(pc = "idle" /\ Terminated)

\* a whole document was read: six events, none of them terminal, came
\* before the EndDocument, each from a call that returned
C15_Witness ==
    /\ pc = "idle"
    /\ Terminated
    /\ Unwrap(ret).kind = "EndDocument"
    /\ lexer.scripted
    /\ lexer.pos = Len(lexer.input)
    /\ Len(log) >= 7

\* the declaration substates in which ProcessingInstructionEnd ends the
\* declaration
DeclarationEndStates ==
    {InsideDeclaration("AfterVersionValue"),
     InsideDeclaration("BeforeStandaloneDecl"),
     InsideDeclaration("AfterStandaloneDeclValue")}

\* the encoding name UTF-8
Utf8 == << "U", "T", "F", "-", "8" >>

\* the whole of the scripted document d was read and the call returned
ReadAll(d) == pc = "idle" /\ lexer.input = d /\ lexer.pos = Len(d)

\* the element r, no prefix and no namespace, as the events name it
PlainR == Name(None, << "r" >>)

\* the events of <?xml version="1.0" encoding="UTF-8" standalone="yes"?><r/>
\* up to EndElement
DeclarationEvents ==
    << EvStartDocument(Version10, Utf8, Some(TRUE)),
       EvStartElement(PlainR, << >>,
                      NstSquash(NstPushEmpty(NamespaceStackDefault))),
       EvEndElement(PlainR) >>

\* C16: ProcessingInstructionEnd in the substate AfterVersionValue,
\* BeforeStandaloneDecl or AfterStandaloneDeclValue makes next return
\* StartDocument with the version read, the encoding read or UTF-8 when none
\* was given, and the standalone value read or none, and the state becomes
\* OutsideTag; <?xml version="1.0" encoding="UTF-8" standalone="yes"?><r/>
\* gives StartDocument{1.0, UTF-8, true}, StartElement r, EndElement r and
\* EndDocument
C16_DeclarationEnds ==
    /\ [][(st \in DeclarationEndStates /\ Takes(ProcessingInstructionEnd))
             => /\ pc' = "idle"
                /\ IsSome(data.version)
                /\ ret' = Some(EvStartDocument(
                               Unwrap(data.version),
                               IF data.encoding = None THEN Utf8
                               ELSE Unwrap(data.encoding),
                               data.standalone))
                /\ st' = OutsideTag]_vars
    /\ [](ReadAll(DocDeclaration)
             => \/ log = SubSeq(DeclarationEvents, 1, 2)
                \/ log = DeclarationEvents
                \/ log = Append(DeclarationEvents, EvEndDocument))
    /\ [](ReadAll(DocDeclarationOnly)
             => log[1] = EvStartDocument(Version11, Utf8, None))
    /\ [](ReadAll(DocEncodingDeclared)
             => log[1] = EvStartDocument(Version10, << "l" >>, None))

\* the four events of the declared document were returned
C16_Witness ==
    /\ ReadAll(DocDeclaration)
    /\ log = Append(DeclarationEvents, EvEndDocument)

\* the token t shows that the XML declaration being read does not begin
\* with version: <?xml is closed at once, or what follows <?xml and
\* whitespace is not the name version
VersionMissing(t) ==
    \/ /\ st = InsideProcessingInstruction("PIInsideName")
       /\ buf = << "x", "m", "l" >>
       /\ ~encountered_element
       /\ ~parsed_declaration
       /\ t = ProcessingInstructionEnd
    \/ /\ st = InsideDeclaration("BeforeVersion")
       /\ t.k # "Whitespace"
       /\ t # Character("v")
    \/ /\ st = InsideDeclaration("InsideVersion")
       /\ t.k # "Character"
       /\ buf # << "e", "r", "s", "i", "o", "n" >>

\* C17: an XML declaration that does not begin with the pseudo-attribute
\* version makes next return an Error, with no StartDocument returned before
\* it (and so none ever); for <?xml ?>, <?xml?>, <?xml encoding="UTF-8"?>
\* and <?xml vx="1.0"?> the Error is the first event
C17_DeclarationWithoutVersion ==
    /\ [][(/\ pc = "loop"
           /\ lexer'.pos = lexer.pos + 1
           /\ IsSome(token')
           /\ VersionMissing(Unwrap(token')))
             => /\ pc' = "idle"
                /\ Unwrap(ret').kind = "Error"
                /\ n_start_document' = 0]_vars
    /\ []((lexer.input \in DocsWithoutVersion /\ IsSome(ret))
             => /\ first = Some("Error")
                /\ n_start_document = 0
                /\ Len(log) = 1)

\* <?xml encoding="UTF-8"?> ended in an Error at the e of encoding, the
\* first event
C17_Witness ==
    /\ pc = "idle"
    /\ lexer.input \in DocsWithoutVersion
    /\ lexer.pos = 6
    /\ token = Some(Character("e"))
    /\ IsSome(ret)
    /\ Unwrap(ret).kind = "Error"
    /\ Unwrap(ret).msg = "Unexpected token inside XML declaration: {}"
    /\ first = Some("Error")

\* an opening tag is being read, a reference inside one of its attribute
\* values included
OpeningTagInProgress ==
    \/ st[1] = "InsideOpeningTag"
    \/ st[1] = "InsideReference" /\ st[2] = "InsideOpeningTag"

\* the depth of the namespace stack between two calls of next
DepthBetweenPulls ==
    (pc = "idle" /\ (IsSome(ret) => Unwrap(ret).kind # "Error"))
        => Len(nst) = Len(NamespaceStackDefault) + Len(est)
                      + IF OpeningTagInProgress \/ pop_namespace THEN 1 ELSE 0

\* a scope is pushed by the start of an opening tag, one scope each time,
\* and by nothing else
OnePushPerOpeningTag ==
    /\ (st = OutsideTag /\ Takes(OpeningTagStart)) => nst' = NstPushEmpty(nst)
    /\ Len(nst') > Len(nst)
           => /\ st = OutsideTag /\ Takes(OpeningTagStart)
              /\ nst' = NstPushEmpty(nst)

\* a scope is popped only at the start of a call that has the flag set, the
\* flag is cleared and no token is taken by that step
PopAtStartOfPull ==
    Len(nst') < Len(nst)
        => /\ pc = "idle"
           /\ pop_namespace
           /\ ~pop_namespace'
           /\ nst' = NstPop(nst)
           /\ lexer' = lexer
           /\ pc' = "loop"

\* the flag is set with the EndElement, returned or queued, and the call
\* after the one that returned the EndElement pops first
PopFollowsEndElement ==
    /\ (~pop_namespace /\ pop_namespace')
           => \/ Unwrap(ret').kind = "EndElement"
              \/ /\ Unwrap(ret').kind = "StartElement"
                 /\ next_event' = Some(EvEndElement(Unwrap(ret').name))
    /\ (pc = "idle" /\ IsSome(ret) /\ Unwrap(ret).kind = "EndElement")
           => /\ pop_namespace
              /\ pc' = "loop"
              /\ nst' = NstPop(nst)
              /\ ~pop_namespace'
              /\ lexer' = lexer

\* C18: each opening tag pushes one namespace scope, which is popped once, at
\* the start of the call after the one that returned the element's
\* EndElement (the queued one for a self-closing tag), before a token is
\* taken; so after every call that did not return an Error the namespace
\* stack is as deep as at the start plus the element stack, plus one when an
\* opening tag is in progress or the deferred pop is pending
C18_NamespaceDepth ==
    /\ []DepthBetweenPulls
    /\ [][OnePushPerOpeningTag /\ PopAtStartOfPull /\ PopFollowsEndElement]_vars

\* the call after the queued EndElement of the self-closing c of DocScopes
\* popped the scope of c and went on to read </b>
C18_Witness ==
    /\ pc = "idle"
    /\ lexer.input = DocScopes
    /\ Len(log) = 6
    /\ log[5].kind = "EndElement"
    /\ log[6].kind = "EndElement"
    /\ pop_namespace
    /\ Len(nst) = 3
    /\ Len(est) = 1

\* C19: in every StartElement an attribute whose name has no prefix has no
\* namespace, also when a default namespace that is not empty is in scope
C19_PlainAttributeHasNoNamespace ==
    [][ReturnsStartElement
          => \A i \in 1..Len(Unwrap(ret').attributes) :
                 Unwrap(ret').attributes[i].name.prefix = None
                     => Unwrap(ret').attributes[i].name.namespace = None]_vars

\* C20: whenever the state is OutsideTag, inside_whitespace is true exactly
\* when every character of the buffer is whitespace, and so whenever the
\* buffer is empty
C20_FlagTracksBuffer ==
    st = OutsideTag
        => (inside_whitespace <=> \A i \in 1..Len(buf) : is_whitespace_char(buf[i]))

\* every character of the text is whitespace
AllWhitespace(text) == \A i \in 1..Len(text) : is_whitespace_char(text[i])

\* the token t, taken in OutsideTag, starts markup and flushes the buffer:
\* the final arm of outside_tag, where it does not end in an Error or in the
\* StartDocument of a document without declaration
FlushingToken(t) ==
    \/ t = ProcessingInstructionStart
    \/ t = DoctypeStart /\ ~encountered_element
    \/ t = OpeningTagStart /\ parsed_declaration
    \/ t = ClosingTagStart /\ Len(est) > 0
    \/ t = CommentStart
          /\ ~(config.coalesce_characters /\ config.ignore_comments)
    \/ t = CDataStart
          /\ ~(config.coalesce_characters /\ config.cdata_to_characters)

\* the event the flush of the buffer gives, by what the buffer holds
FlushOfBuffer ==
    IF buf = << >>
    THEN None
    ELSE IF AllWhitespace(buf)
    THEN IF config.trim_whitespace
         THEN None
         ELSE IF ~config.whitespace_to_characters
         THEN Some(EvWhitespace(buf))
         ELSE Some(EvCharacters(buf))
    ELSE IF config.trim_whitespace
    THEN Some(EvCharacters(TrimWhitespace(buf)))
    ELSE Some(EvCharacters(buf))

\* C21: a markup-start token that flushes the buffer in OutsideTag gives no
\* event for an empty buffer and for whitespace under trim_whitespace, a
\* Whitespace event with the buffer for whitespace with trim_whitespace and
\* whitespace_to_characters off, a Characters event with the trimmed buffer
\* for other text under trim_whitespace, else a Characters event with the
\* buffer; the buffer is empty afterwards
C21_FlushByContent ==
    [][(/\ st = OutsideTag
        /\ pc = "loop"
        /\ lexer'.pos = lexer.pos + 1
        /\ IsSome(token')
        /\ FlushingToken(Unwrap(token')))
          => /\ buf' = << >>
             /\ IF FlushOfBuffer = None
                THEN pc' = "loop"
                ELSE pc' = "idle" /\ ret' = FlushOfBuffer]_vars

\* this step takes a token in OutsideTag with no element open
TakesOutsideRoot ==
    /\ st = OutsideTag
    /\ est = << >>
    /\ pc = "loop"
    /\ lexer'.pos = lexer.pos + 1
    /\ IsSome(token')

\* C22: in OutsideTag with an empty element stack a Whitespace token gives
\* no event and leaves the buffer as it is, and any other token with
\* character data makes next return the Error 'Unexpected characters outside
\* the root element: {}'
C22_CharactersOutsideRoot ==
    [][TakesOutsideRoot
          => LET t == Unwrap(token')
             IN  /\ t.k = "Whitespace"
                     => /\ pc' = "loop"
                        /\ buf' = buf
                        /\ st' = OutsideTag
                 /\ (ContainsCharData(t) /\ t.k # "Whitespace")
                     => /\ pc' = "idle"
                        /\ ret' = Some(EvError(
                               "Unexpected characters outside the root element: {}",
                               << t >>))]_vars

\* whitespace before the root was passed over and the character after it
\* ended in the Error
C22_Witness ==
    /\ pc = "idle"
    /\ ~lexer.scripted
    /\ lexer.pos = 2
    /\ token = Some(Character("l"))
    /\ buf = << >>
    /\ ret = Some(EvError("Unexpected characters outside the root element: {}",
                          << Character("l") >>))

\* C23: no Characters, Whitespace or CData event is returned while the
\* element stack is empty, whatever the tokens and the configuration
C23_NoTextOutsideRoot ==
    (/\ pc = "idle"
     /\ IsSome(ret)
     /\ Unwrap(ret).kind \in {"Characters", "Whitespace", "CData"})
        => est # << >>

\* C24: a processing instruction named xml in a capitalization other than
\* all lower case makes next return an Error, at ProcessingInstructionEnd
\* and at whitespace after the name, before and after any declaration and
\* element
C24_XmlLikeNameIsError ==
    [][(/\ st = InsideProcessingInstruction("PIInsideName")
        /\ buf \in XmlLikeNames \ {<< "x", "m", "l" >>}
        /\ pc = "loop"
        /\ lexer'.pos = lexer.pos + 1
        /\ IsSome(token')
        /\ \/ token' = Some(ProcessingInstructionEnd)
           \/ Unwrap(token').k = "Whitespace")
          => /\ pc' = "idle"
             /\ Unwrap(ret').kind = "Error"]_vars

\* the declaration substates that read a pseudo-attribute name
DeclarationNameStates ==
    {InsideDeclaration("InsideVersion"), InsideDeclaration("InsideEncoding"),
     InsideDeclaration("InsideStandaloneDecl")}

\* C25: in the XML declaration a pseudo-attribute name with a prefix (the
\* text after its first letter holds a ':') is rejected with an Error when
\* the name ends
C25_PrefixedPseudoAttribute ==
    [][(/\ st \in DeclarationNameStates
        /\ \E i \in 1..Len(buf) : buf[i] = ":"
        /\ pc = "loop"
        /\ lexer'.pos = lexer.pos + 1
        /\ IsSome(token')
        /\ \/ token' = Some(EqualsSign)
           \/ Unwrap(token').k = "Whitespace")
          => /\ pc' = "idle"
             /\ Unwrap(ret').kind = "Error"]_vars

\* the states whose content is arbitrary text
LenientStates ==
    {InsideComment, InsideCData, InsideDoctype,
     InsideProcessingInstruction("PIInsideData")}

\* C26: as long as no terminal event was produced, the lexer's errors are
\* disabled exactly in the states InsideComment, InsideCData, InsideDoctype
\* and InsideProcessingInstruction(PIInsideData), and so enabled in
\* OutsideTag, in a tag, in a declaration and in a reference
C26_ErrorsDisabledInLenientStates ==
    finish_event = None => (lexer.skip_errors <=> st \in LenientStates)

\* the comment, the DOCTYPE and the processing instruction of DocNoElement
\* were entered and left: the lexer's errors are enabled again
C26_Witness ==
    /\ pc = "idle"
    /\ lexer.input = DocNoElement
    /\ Len(log) = 2
    /\ log[1].kind = "Comment"
    /\ log[2].kind = "ProcessingInstruction"
    /\ st = OutsideTag
    /\ ~lexer.skip_errors

\* the reference name is a numeric reference, decimal or hexadecimal, all
\* of whose digits are 0
IsZeroReference(name) ==
    LET digits == IF Len(name) > 2 /\ SubSeq(name, 1, 2) = << "#", "x" >>
                  THEN SubSeq(name, 3, Len(name))
                  ELSE IF Len(name) > 1 /\ name[1] = "#"
                  THEN SubSeq(name, 2, Len(name))
                  ELSE << >>
    IN  digits # << >> /\ \A i \in 1..Len(digits) : digits[i] = "0"

\* the NUL character, as from_u32 gives it
Nul == "U+0"

\* C27: a numeric character reference with the value 0, in any spelling
\* (&#0;, &#00;, &#x0;, &#x00;), makes next return an Error, and the NUL
\* character is never appended to the buffer
C27_ZeroReferenceIsError ==
    /\ [][(/\ st[1] = "InsideReference"
           /\ IsZeroReference(data.ref_data)
           /\ Takes(ReferenceEnd))
             => /\ pc' = "idle"
                /\ Unwrap(ret').kind = "Error"]_vars
    /\ [](\A i \in 1..Len(buf) : buf[i] # Nul)

\* this step takes the closing quote of the value of an attribute xmlns
\* without prefix: buf is the value
DefaultNamespaceValueEnds ==
    /\ st = InsideOpeningTag("InsideAttributeValue")
    /\ data.attr_name = Some(Name(None, NS_XMLNS_PREFIX))
    /\ IsSome(data.quote)
    /\ pc = "loop"
    /\ lexer'.pos = lexer.pos + 1
    /\ IsSome(token')
    /\ Unwrap(token').k = Unwrap(data.quote)

\* C28: an attribute xmlns without prefix whose value is the URI of the xml
\* or of the xmlns namespace makes next return an Error; any other value is
\* bound as the default namespace in the top scope, and the attribute is
\* not added to the attributes
C28_DefaultNamespaceValue ==
    [][DefaultNamespaceValueEnds
          => IF buf \in {NS_XML_URI, NS_XMLNS_URI}
             THEN pc' = "idle" /\ Unwrap(ret').kind = "Error"
             ELSE /\ pc' = "loop"
                  /\ nst' = NstPut(nst, None, buf)
                  /\ data'.attributes = data.attributes
                  /\ st' = InsideOpeningTag("InsideTag")]_vars

\* the states in which read_qualified_name reads a name into the buffer
NameStates ==
    {InsideOpeningTag("InsideName"), InsideOpeningTag("InsideAttributeName"),
     InsideClosingTag("CTInsideName")} \cup DeclarationNameStates

\* the qualified name, as the parser keeps it, does not begin with ':' and
\* holds one ':' at most
WellFormedName(name) ==
    /\ name.prefix # Some(<< >>)
    /\ ColonPositions(name.local_name) = {}
    /\ IsSome(name.prefix) => ColonPositions(Unwrap(name.prefix)) = {}

\* the names the parser has accepted and keeps
AcceptedNames ==
    (IF IsSome(data.element_name) THEN {Unwrap(data.element_name)} ELSE {})
    \cup (IF IsSome(data.attr_name) THEN {Unwrap(data.attr_name)} ELSE {})
    \cup {data.attributes[i].name : i \in 1..Len(data.attributes)}
    \cup {est[i] : i \in 1..Len(est)}

\* C29: every qualified name the parser accepts does not begin with ':' and
\* holds one ':' at most; a ':' as the first character of a name, also of
\* an attribute name whose first character InsideTag takes, or a second ':'
\* makes next return an Error
C29_ColonsInNames ==
    /\ [](\A name \in AcceptedNames : WellFormedName(name))
    /\ [][(/\ Takes(Character(":"))
           /\ \/ st = InsideOpeningTag("InsideTag")
              \/ st \in NameStates /\ buf = << >>
              \/ st \in NameStates /\ ColonPositions(buf) # {})
             => /\ pc' = "idle"
                /\ Unwrap(ret').kind = "Error"]_vars

\* this step takes a token, whichever
TakesToken == pc = "loop" /\ lexer'.pos = lexer.pos + 1 /\ IsSome(token')

\* with coalesce_characters and ignore_comments on, the start of a comment
\* in the content and every token of the comment leave the buffer as it is,
\* and no Comment event is returned
CommentSwallowed ==
    (config.coalesce_characters /\ config.ignore_comments)
        => /\ (st = OutsideTag /\ Takes(CommentStart))
                  => pc' = "loop" /\ st' = InsideComment /\ buf' = buf
           /\ (st = InsideComment /\ TakesToken)
                  => /\ buf' = buf
                     /\ pc' = "idle" => Unwrap(ret').kind = "Error"

\* with ignore_comments off, the start of a comment flushes the buffer and
\* the end of the comment returns the Comment event with the comment's text
CommentReturned ==
    ~config.ignore_comments
        => /\ (st = OutsideTag /\ Takes(CommentStart))
                  => st' = InsideComment /\ buf' = << >>
           /\ (st = InsideComment /\ Takes(CommentEnd))
                  => pc' = "idle" /\ ret' = Some(EvComment(buf))

\* the events of <a>x<!--c-->y</a> without the comment: one run of text
CoalescedEvents ==
    << EvStartDocument(DEFAULT_VERSION, DEFAULT_ENCODING, DEFAULT_STANDALONE),
       EvStartElement(PlainA, << >>,
                      NstSquash(NstPushEmpty(NamespaceStackDefault))),
       EvCharacters(<< "x", "y" >>),
       EvEndElement(PlainA) >>

\* the events of <a>x<!--c-->y</a> with the comment between two runs
SeparateEvents ==
    << EvStartDocument(DEFAULT_VERSION, DEFAULT_ENCODING, DEFAULT_STANDALONE),
       EvStartElement(PlainA, << >>,
                      NstSquash(NstPushEmpty(NamespaceStackDefault))),
       EvCharacters(<< "x" >>),
       EvComment(<< "c" >>),
       EvCharacters(<< "y" >>),
       EvEndElement(PlainA) >>

\* C30: with coalesce_characters and ignore_comments on, a comment in the
\* content does not flush the buffer and none of its tokens changes the
\* buffer, so that the text before and after it is returned as one event
\* and no Comment event is returned; with ignore_comments off CommentStart
\* flushes the buffer and the comment is returned as a Comment event between
\* the two runs of text
C30_CommentsAndCoalescing ==
    /\ [][CommentSwallowed /\ CommentReturned]_vars
    /\ []((ReadAll(NamedDocs.comment_in_text)
              /\ config.coalesce_characters /\ config.ignore_comments)
             => \/ log = CoalescedEvents
                \/ log = Append(CoalescedEvents, EvEndDocument))
    /\ []((ReadAll(NamedDocs.comment_in_text) /\ ~config.ignore_comments)
             => \/ log = SeparateEvents
                \/ log = Append(SeparateEvents, EvEndDocument))

\* <a>x<!--c-->y</a> was read with coalesce_characters and ignore_comments
\* on: the text came as one Characters event
C30_Witness ==
    /\ ReadAll(NamedDocs.comment_in_text)
    /\ config.coalesce_characters
    /\ config.ignore_comments
    /\ log = Append(CoalescedEvents, EvEndDocument)

\* this step takes the OpeningTagStart of the root element of a document
\* without declaration, for which outside_tag schedules the StartDocument
\* with the defaults in place of the event of the buffer flush
FirstTagWithoutDeclaration ==
    st = OutsideTag /\ ~parsed_declaration /\ Takes(OpeningTagStart)

\* C31: when OpeningTagStart arrives in OutsideTag with no declaration
\* parsed, the buffer is empty and its flush gives no event, so that the
\* StartDocument that replaces the event of the flush replaces no Characters
\* or Whitespace event
C31_BufferEmptyAtFirstTag ==
    [][FirstTagWithoutDeclaration
           => /\ buf = << >>
              /\ FlushBuffer(Self).ev = None]_vars

\* C32: no panic site is reached, whatever the tokens: the unwrap() of the
\* element name in emit_start_element and emit_end_element, of the attribute
\* name at the end of an attribute value and of est.pop() in
\* emit_end_element, the unreachable!() of the two name callbacks, the
\* panic!() of QuoteToken::from_token, and any other place that can panic
C32_NoPanicSiteReached ==
    pc # "panicked" /\ panic = None

=============================================================================
